---------------------------- MODULE Spec2Model ----------------------------
(***************************************************************************)
(* Model of the voice chat loop: the capture callback and polling loop of  *)
(* AudioProcessor.record_with_vad (stt_processor.py), the sentence         *)
(* segmenter, synthesis queue and worker of TTSProcessor                   *)
(* (tts_processor.py) and the turn glue of VoiceChatApp (voice_chat.py).   *)
(*                                                                         *)
(* Three threads share the state: the audio driver thread running          *)
(* audio_callback (cb_pc), the main thread running the polling loop and    *)
(* the turn (m_pc), and the TTS worker thread (w_pc).  Every thread        *)
(* advances one shared-memory access at a time.                            *)
(*                                                                         *)
(* Text is a sequence of one-character strings.  Audio is counted in       *)
(* blocks of blocksize = int(sample_rate * 0.1) samples: the input stream  *)
(* delivers exactly one block per callback, so every buffer length is a    *)
(* whole number of blocks; a block is named by its delivery number.        *)
(***************************************************************************)
EXTENDS Integers, Sequences, FiniteSets

VARIABLES
    \* ---- TTSProcessor (tts_processor.py)
    enable_tts,          \* self.enable_tts
    stream_by_sentence,  \* self.stream_by_sentence
    audio_queue,         \* self.audio_queue: items waiting, in put order
    unfinished_tasks,    \* queue.Queue's count of puts without task_done
    is_speaking,         \* self._is_speaking_event
    w_pc,                \* position of the worker thread in _tts_worker
    w_text,              \* the worker's local `text`
    clean_text,          \* local clean_text of _generate_and_play_speech
    \* ---- speak_stream and its helpers, run by the main thread
    text_generator,      \* fragments the generator has yet to yield
    sentence_buffer,     \* local of _process_sentence_streaming
    full_response,       \* local of _process_full_response
    \* ---- LLMProcessor (llm_processor.py)
    conversation_history,  \* self.conversation_history: (prompt, reply) pairs
    generator_end,       \* what the reply generator does once its chunks ran out
    \* ---- AudioProcessor.record_with_vad (stt_processor.py)
    audio_buffer,        \* closure variable audio_buffer (blocks, oldest first)
    silence_counter,     \* closure variable silence_counter
    recording,           \* closure variable recording
    stream_active,       \* whether the sd.InputStream context is open
    transcription,       \* local transcription of the polling loop
    m_pc,                \* position of the main thread
    cb_pc,               \* position of the driver thread in audio_callback
    cb_block,            \* the block `indata` of the running callback
    cb_local,            \* a value the callback has read and not yet stored
    vad_raised,          \* whether the running callback's detect_speech raised
    stt_raised,          \* whether the running turn's transcribe_audio raised
    \* ---- observations (history, written only)
    delivered,           \* blocks the input stream has delivered so far
    turn_blocks,         \* blocks delivered since the running turn's snapshot
    vad_calls,           \* calls of detect_speech since the last turn ended
    gated,               \* blocks the callback discarded at its entry
    heard,               \* whether detect_speech has ever reported speech
    episodes,            \* times the callback turned recording from False to True
    fragments,           \* the fragments of the running turn's reply
    enqueued,            \* the running turn's puts on audio_queue, in order
    taken,               \* the units the worker has dequeued this turn
    rendered,            \* <<unit, outcome>> per _generate_and_play_speech
                         \* return this turn
    utterances,          \* every snapshot the polling loop has taken
    turns                \* number of finalizations so far

tts_vars == <<enable_tts, stream_by_sentence, audio_queue, unfinished_tasks,
              is_speaking, w_pc, w_text, clean_text>>
llm_vars == <<conversation_history, generator_end>>
seg_vars == <<text_generator, sentence_buffer, full_response, fragments,
              llm_vars>>
tts_obs == <<enqueued, taken, rendered>>
cb_vars == <<cb_pc, cb_block, cb_local, vad_raised>>
turn_vars == <<stream_active, transcription, stt_raised>>
cap_obs == <<delivered, turn_blocks, vad_calls, gated, heard, episodes,
            utterances, turns>>
cap_vars == <<audio_buffer, silence_counter, recording, cb_vars, turn_vars,
              cap_obs>>
vars == <<tts_vars, tts_obs, seg_vars, cap_vars, m_pc>>

---------------------------------------------------------------------------
(* Text helpers: str.strip and re.split as Python computes them.           *)

Whitespace == {" ", "\n", "\t"}
Terminators == {".", "!", "?"}

\* A pattern that knows the full stop only: (\.\s+).
IsTermDotOnly(c) == c = "."

IsSpace(c) == c \in Whitespace

\* The class [.!?] of sentence_split_pattern.
IsTerm(c) == c \in Terminators

RECURSIVE lstrip(_)
lstrip(s) == IF Len(s) > 0 /\ IsSpace(s[1]) THEN lstrip(Tail(s)) ELSE s

RECURSIVE rstrip(_)
rstrip(s) ==
    IF Len(s) > 0 /\ IsSpace(s[Len(s)])
    THEN rstrip(SubSeq(s, 1, Len(s) - 1))
    ELSE s

\* str.strip(): leading and trailing whitespace removed.
strip(s) == rstrip(lstrip(s))

RECURSIVE Concat(_)
\* "".join(seq) for a sequence of texts.
Concat(ss) == IF ss = <<>> THEN <<>> ELSE Head(ss) \o Concat(Tail(ss))

RECURSIVE RunEnd(_, _)
\* Last index of the whitespace run of s that contains index j (\s+ is greedy).
RunEnd(s, j) == IF j < Len(s) /\ IsSpace(s[j + 1]) THEN RunEnd(s, j + 1) ELSE j

RECURSIVE SplitFrom(_, _, _)
\* re.split with the capturing pattern ([.!?]\s+): the text before each
\* match, the match itself, ..., and the text after the last match.
SplitFrom(s, start, i) ==
    IF i >= Len(s)
    THEN << SubSeq(s, start, Len(s)) >>
    ELSE IF IsTerm(s[i]) /\ IsSpace(s[i + 1])
         THEN LET e == RunEnd(s, i + 1)
              IN  << SubSeq(s, start, i - 1), SubSeq(s, i, e) >>
                      \o SplitFrom(s, e + 1, e + 1)
         ELSE SplitFrom(s, start, i + 1)

sentence_split_pattern_split(s) == SplitFrom(s, 1, 1)

RECURSIVE SentencesFrom(_, _)
\* The puts of _handle_sentence_boundaries: for i in range(0, len(parts)-1, 2)
\* the stripped parts[i] + parts[i+1], when that is not empty.
SentencesFrom(parts, i) ==
    IF i > Len(parts) - 1
    THEN <<>>
    ELSE LET sentence == parts[i] \o parts[i + 1]
         IN  (IF strip(sentence) # <<>> THEN << strip(sentence) >> ELSE <<>>)
                 \o SentencesFrom(parts, i + 2)

\* _handle_sentence_boundaries(parts): what it puts, and what it returns.
HandleSentencePuts(parts) == SentencesFrom(parts, 1)
HandleSentenceRest(parts) == parts[Len(parts)]

\* The final put of both modes: `if x.strip(): put(x.strip())`.
FlushPuts(s) == IF strip(s) # <<>> THEN << strip(s) >> ELSE <<>>

---------------------------------------------------------------------------
(* LLMProcessor.generate_response: a generator.  Nothing of it runs until  *)
(* the consumer asks for a fragment; text_generator holds the chunks the   *)
(* model stream will still deliver and generator_end what follows them:    *)
(* "return" (the stream ends), "raise" (the stream, or the call that opens *)
(* it, raises) or "stop" (the generator has nothing left to run, as for a  *)
(* plain iterator).                                                        *)

\* self.max_history_pairs.
max_history_pairs == 10

\* The literal error_response of the except branch.
error_response ==
    <<"H", "m", "m", ",", " ", "s", "o", "m", "e", "t", "h", "i", "n", "g",
      " ", "w", "e", "i", "r", "d", " ", "h", "a", "p", "p", "e", "n", "e",
      "d", " ", "i", "n", " ", "m", "y", " ", "b", "r", "a", "i", "n", " ",
      "j", "u", "s", "t", " ", "n", "o", "w", ".", " ", "C", "a", "n", " ",
      "y", "o", "u", " ", "t", "r", "y", " ", "t", "h", "a", "t", " ", "a",
      "g", "a", "i", "n", "?" >>

\* An except branch that yields the fallback and leaves the history alone.
HistoryOnErrorNone(history, text) == history

\* generate_response, the except branch: one pair appended, no trimming.
HistoryOnError(history, text) == Append(history, <<text, error_response>>)

\* generate_response, after the loop: the pair appended, the history cut
\* to its last max_history_pairs pairs.
HistoryOnReturn(history, text, full_response_text) ==
    LET appended == Append(history, <<text, full_response_text>>)
    IN  IF Len(appended) > max_history_pairs
        THEN SubSeq(appended, Len(appended) - max_history_pairs + 1, Len(appended))
        ELSE appended

\* Whether the generator yields another fragment, and which.
GeneratorYields == text_generator # <<>> \/ generator_end = "raise"
GeneratorChunk ==
    IF text_generator # <<>> THEN Head(text_generator) ELSE error_response

\* One next() that yields: the next chunk of the stream; or, the stream
\* raising, the except branch up to its yield.
GeneratorNext ==
    /\ GeneratorYields
    /\ IF text_generator # <<>>
       THEN /\ text_generator' = Tail(text_generator)
            /\ UNCHANGED <<fragments, llm_vars>>
       ELSE /\ text_generator' = <<>>
            /\ fragments' = Append(fragments, error_response)
            /\ conversation_history' =
                   HistoryOnError(conversation_history, transcription)
            /\ generator_end' = "stop"

\* The next() that ends the iteration: after the last chunk the generator
\* runs on to its end, recording the reply when the stream ended normally.
GeneratorStop ==
    /\ ~GeneratorYields
    /\ conversation_history' =
           IF generator_end = "return"
           THEN HistoryOnReturn(conversation_history, transcription,
                                Concat(fragments))
           ELSE conversation_history
    /\ generator_end' = "stop"
    /\ UNCHANGED <<text_generator, fragments>>

\* "".join(response_generator): the generator run to its end in one go.
GeneratorJoin ==
    /\ text_generator' = <<>>
    /\ generator_end' = "stop"
    /\ fragments' = IF generator_end = "raise"
                    THEN Append(fragments, error_response) ELSE fragments
    /\ conversation_history' =
           IF generator_end = "raise"
           THEN HistoryOnError(conversation_history, transcription)
           ELSE IF generator_end = "return"
           THEN HistoryOnReturn(conversation_history, transcription,
                                Concat(fragments))
           ELSE conversation_history

---------------------------------------------------------------------------
(* TTSProcessor: the queue, the worker thread and speak_stream.            *)

\* The shutdown signal cleanup() puts on the queue (Python's None).
None == << "None" >>

\* queue.Queue.put: append the items, count them as unfinished.
QueuePut(items) ==
    /\ audio_queue' = audio_queue \o items
    /\ unfinished_tasks' = unfinished_tasks + Len(items)
    /\ enqueued' = enqueued \o items

\* A stack instead of a queue: get hands out the newest item.
QueueBack(q) == q[Len(q)]

\* The item queue.Queue.get hands out: the oldest one.
QueueFront(q) == Head(q)
QueueRest(q) == Tail(q)

\* The two dashes _clean_text_for_tts replaces, each one character of the
\* text: the em dash U+2014 and the en dash U+2013.
EmDash == "U+2014"
EnDash == "U+2013"
Markup == {"*", "_"}
Dashes == {EmDash, EnDash}

\* F at the value of e: e is evaluated once, however often F uses it.
With(e, F(_)) == CHOOSE r \in {F(v) : v \in {e}} : TRUE

\* text.replace("*", "").replace("_", "")
RemoveMarkup(s) == SelectSeq(s, LAMBDA c : c \notin Markup)

RECURSIVE PickRange(_, _, _, _)
\* The characters of s at the indices lo..hi that are in keep, in order.
PickRange(s, keep, lo, hi) ==
    IF lo > hi THEN <<>>
    ELSE IF lo = hi THEN (IF lo \in keep THEN << s[lo] >> ELSE <<>>)
    ELSE LET mid == (lo + hi) \div 2
         IN  PickRange(s, keep, lo, mid) \o PickRange(s, keep, mid + 1, hi)

\* The characters of s at the indices in keep, in their order in s.
Pick(s, keep) ==
    With(keep, LAMBDA k : With(s, LAMBDA t : PickRange(t, k, 1, Len(t))))

\* The two replace(dash, " ") calls.
DashToSpace(s) ==
    With(s, LAMBDA t :
        Pick([i \in 1..Len(t) |-> IF t[i] \in Dashes THEN " " ELSE t[i]],
             1..Len(t)))

\* re.sub(r'\s+', ' ', s): every whitespace run becomes one space, which
\* stands where the run began.
CollapseSpaces(s) ==
    With(s, LAMBDA t :
        Pick([i \in 1..Len(t) |-> IF IsSpace(t[i]) THEN " " ELSE t[i]],
             {i \in 1..Len(t) : ~IsSpace(t[i]) \/ i = 1 \/ ~IsSpace(t[i - 1])}))

\* Largest member of a set of indices, 0 when there is none.
LastOf(S) == IF S = {} THEN 0 ELSE CHOOSE i \in S : \A j \in S : j <= i

\* Where the match of opener .*? closer that ends at the closer s[c] starts,
\* 0 when no match ends there.  The scan resumes after the closer before c,
\* and . does not match a newline, so the match starts at the first opener
\* after both; being lazy, it cannot run past a closer.
SpanStart(s, c, opener, closer) ==
    LET from == LastOf({i \in 1..(c - 1) : s[i] \in {closer, "\n"}})
        openers == {i \in (from + 1)..(c - 1) : s[i] = opener}
    IN  IF openers = {} THEN 0 ELSE CHOOSE i \in openers : \A j \in openers : i <= j

\* The indices of s inside a match of opener .*? closer.
SpanIndices(s, opener, closer) ==
    UNION { IF s[c] = closer /\ SpanStart(s, c, opener, closer) # 0
            THEN SpanStart(s, c, opener, closer)..c
            ELSE {} : c \in 1..Len(s) }

\* re.sub(opener .*? closer, '', s): leftmost matches, each as short as
\* possible, deleted.
RemoveSpans(s, opener, closer) ==
    With(s, LAMBDA t : Pick(t, (1..Len(t)) \ SpanIndices(t, opener, closer)))

\* A cleaner that collapses and trims after deleting the spans.
CleanCollapseLast(text) ==
    LET replaced == DashToSpace(RemoveMarkup(text))
        removed == RemoveSpans(RemoveSpans(replaced, "[", "]"), "(", ")")
    IN  With(CollapseSpaces(removed), LAMBDA t : strip(t))

\* _clean_text_for_tts(text).
clean_text_for_tts(text) ==
    IF text = <<>>
    THEN <<>>
    ELSE LET replaced == DashToSpace(RemoveMarkup(text))
             collapsed == With(CollapseSpaces(replaced), LAMBDA t : strip(t))
         IN  RemoveSpans(RemoveSpans(collapsed, "[", "]"), "(", ")")

\* _tts_worker, `text = self.audio_queue.get()` and the test for None.
WorkerGet ==
    /\ w_pc = "get"
    /\ audio_queue # <<>>
    /\ w_text' = QueueFront(audio_queue)
    /\ audio_queue' = QueueRest(audio_queue)
    /\ IF QueueFront(audio_queue) = None
       THEN w_pc' = "exit" /\ taken' = taken
       ELSE w_pc' = "set" /\ taken' = Append(taken, QueueFront(audio_queue))
    /\ UNCHANGED <<enable_tts, stream_by_sentence, unfinished_tasks, is_speaking, clean_text,
                   enqueued, rendered, seg_vars, cap_vars, m_pc>>

\* An Event whose set() leaves it clear.
EventSetLost == FALSE

\* An Event whose clear() leaves it set.
EventClearLost == TRUE

\* threading.Event: the value is_set() returns after set() and after clear().
EventSet == TRUE
EventClear == FALSE

\* _tts_worker, `self._is_speaking_event.set()`.
WorkerSet ==
    /\ w_pc = "set"
    /\ is_speaking' = EventSet
    /\ w_pc' = "generate"
    /\ UNCHANGED <<enable_tts, stream_by_sentence,
                   audio_queue, unfinished_tasks,
                   w_text, clean_text, tts_obs,
                   seg_vars, cap_vars, m_pc>>

\* How one call of _generate_and_play_speech can end: the audio was written
\* to the output stream; synthesis or playback raised and the except branch
\* printed the fallback; or there was nothing to speak (empty clean text or
\* empty audio) and it returned early.
Outcomes == {"played", "fallback", "nothing"}

\* How the part before the output stream can end for a non-empty clean
\* text: audio ready to play, empty audio, or an exception.
SynthesisOutcomes == {"audio", "nothing", "fallback"}

\* How `stream.write(audio_array)` can end.
PlayOutcomes == {"played", "fallback"}

\* A worker whose thread ends when synthesis or playback raises.
AfterGenerateDies(o) == IF o = "fallback" THEN "exit" ELSE "clear"

\* What the worker does when _generate_and_play_speech comes back with
\* outcome o: every exception is caught inside, so it always goes on to the
\* clear.
AfterGenerate(o) == "clear"

\* _tts_worker, `self._generate_and_play_speech(text)` up to the opening of
\* the output stream: the text is cleaned, an empty clean text returns at
\* once, otherwise the pipeline synthesizes the audio.
WorkerGenerate ==
    /\ w_pc = "generate"
    /\ LET cleaned == clean_text_for_tts(w_text)
       IN  /\ clean_text' = cleaned
           /\ \E o \in (IF cleaned = <<>> THEN {"nothing"} ELSE SynthesisOutcomes) :
                 IF o = "audio"
                 THEN w_pc' = "play" /\ rendered' = rendered
                 ELSE /\ rendered' = Append(rendered, <<w_text, o>>)
                      /\ w_pc' = AfterGenerate(o)
    /\ UNCHANGED <<enable_tts, stream_by_sentence,
                   audio_queue, unfinished_tasks,
                   is_speaking, w_text,
                   enqueued, taken, seg_vars,
                   cap_vars, m_pc>>

\* _generate_and_play_speech, `with sd.OutputStream(...): stream.write(...)`:
\* the audio is on its way to the output device until the write returns or
\* raises.
WorkerPlay ==
    /\ w_pc = "play"
    /\ \E o \in PlayOutcomes :
          /\ rendered' = Append(rendered, <<w_text, o>>)
          /\ w_pc' = AfterGenerate(o)
    /\ UNCHANGED <<enable_tts, stream_by_sentence, audio_queue, unfinished_tasks,
                   is_speaking, w_text, clean_text, enqueued, taken, seg_vars,
                   cap_vars, m_pc>>

\* _tts_worker, `self._is_speaking_event.clear()`.
WorkerClear ==
    /\ w_pc = "clear"
    /\ is_speaking' = EventClear
    /\ w_pc' = "task_done"
    /\ UNCHANGED <<enable_tts, stream_by_sentence,
                   audio_queue, unfinished_tasks,
                   w_text, clean_text, tts_obs,
                   seg_vars, cap_vars, m_pc>>

\* _tts_worker, `self.audio_queue.task_done()`, then back to the get.
WorkerTaskDone ==
    /\ w_pc = "task_done"
    /\ unfinished_tasks' = unfinished_tasks - 1
    /\ w_pc' = "get"
    /\ UNCHANGED <<enable_tts, stream_by_sentence,
                   audio_queue, is_speaking, w_text,
                   clean_text, tts_obs, seg_vars,
                   cap_vars, m_pc>>

Worker ==
    \/ WorkerGet
    \/ WorkerSet
    \/ WorkerGenerate
    \/ WorkerPlay
    \/ WorkerClear
    \/ WorkerTaskDone

\* Bound of a run of the model: the turns whose reply speak_stream is run
\* on; the reply of a later turn is generated and left at that.
MaxSpokenTurns == 1

\* A speak_stream that takes the streaming path whatever the switch says.
TtsDisabledNever(enabled) == FALSE

\* speak_stream, `if not self.enable_tts:`.
TtsDisabled(enabled) == ~enabled

\* on_speech_detected hands the reply to speak_stream.  With TTS off the
\* generator is joined and printed (on_speech_detected's else branch, and
\* speak_stream's own first test, whose local full_response holds the
\* joined text) and the turn is over; otherwise the configured mode is
\* entered.
SpeakStreamEnter ==
    /\ m_pc = "speak_stream"
    /\ turns <= MaxSpokenTurns
    /\ IF TtsDisabled(enable_tts)
       THEN /\ GeneratorJoin
            /\ full_response' = Concat(fragments')
            /\ m_pc' = "reset_buffer"
       ELSE /\ UNCHANGED <<text_generator, fragments, llm_vars>>
            /\ full_response' = <<>>
            /\ m_pc' = IF stream_by_sentence THEN "sentence_streaming"
                                             ELSE "full_response"
    /\ sentence_buffer' = <<>>
    /\ UNCHANGED <<tts_vars, tts_obs, cap_vars>>

\* A buffer that is overwritten by the chunk when no sentence ended:
\* `sentence_buffer = chunk` for `sentence_buffer += chunk`.
StreamingRestLost(buf, chunk) ==
    IF chunk = <<>> THEN buf
    ELSE IF Len(sentence_split_pattern_split(buf \o chunk)) > 1
         THEN HandleSentenceRest(sentence_split_pattern_split(buf \o chunk))
         ELSE chunk

\* A segmenter that holds every sentence back until the input ends.
StreamingPutsLater(buf, chunk) == <<>>

\* A segmenter that splits each chunk on its own.
StreamingPartsOfChunk(buf, chunk) == sentence_split_pattern_split(chunk)

\* The sentence buffer after one chunk of _process_sentence_streaming, and
\* what that iteration puts on the queue.
StreamingParts(buf, chunk) == sentence_split_pattern_split(buf \o chunk)
StreamingPuts(buf, chunk) ==
    IF chunk # <<>> /\ Len(StreamingParts(buf, chunk)) > 1
    THEN HandleSentencePuts(StreamingParts(buf, chunk))
    ELSE <<>>
StreamingRest(buf, chunk) ==
    IF chunk = <<>> THEN buf
    ELSE IF Len(StreamingParts(buf, chunk)) > 1
         THEN HandleSentenceRest(StreamingParts(buf, chunk))
         ELSE buf \o chunk

\* _process_sentence_streaming, one iteration of `for chunk in text_generator`.
SentenceStreamingChunk ==
    /\ m_pc = "sentence_streaming"
    /\ GeneratorNext
    /\ LET chunk == GeneratorChunk
       IN  /\ QueuePut(StreamingPuts(sentence_buffer, chunk))
           /\ sentence_buffer' = StreamingRest(sentence_buffer, chunk)
    /\ UNCHANGED <<enable_tts, stream_by_sentence, is_speaking, w_pc, w_text,
                   clean_text, taken, rendered, full_response, cap_vars, m_pc>>

\* _process_sentence_streaming, after the loop: the remainder is put.
SentenceStreamingFlush ==
    /\ m_pc = "sentence_streaming"
    /\ GeneratorStop
    /\ QueuePut(FlushPuts(sentence_buffer))
    /\ m_pc' = "join"
    /\ UNCHANGED <<enable_tts, stream_by_sentence, is_speaking, w_pc, w_text,
                   clean_text, taken, rendered, sentence_buffer,
                   full_response, cap_vars>>

\* `full_response = chunk` for `full_response += chunk`.
FullAppendLast(full, chunk) == IF chunk # <<>> THEN chunk ELSE full

\* _process_full_response, `if chunk: full_response += chunk`.
FullAppend(full, chunk) == IF chunk # <<>> THEN full \o chunk ELSE full

\* _process_full_response, one iteration of `for chunk in text_generator`.
FullResponseChunk ==
    /\ m_pc = "full_response"
    /\ GeneratorNext
    /\ full_response' = FullAppend(full_response, GeneratorChunk)
    /\ UNCHANGED <<tts_vars, tts_obs, sentence_buffer, cap_vars, m_pc>>

\* _process_full_response, after the loop: the whole response is put.
FullResponseFlush ==
    /\ m_pc = "full_response"
    /\ GeneratorStop
    /\ QueuePut(FlushPuts(full_response))
    /\ m_pc' = "join"
    /\ UNCHANGED <<enable_tts, stream_by_sentence, is_speaking, w_pc, w_text,
                   clean_text, taken, rendered, sentence_buffer,
                   full_response, cap_vars>>

\* A wait for the queue to be empty instead of for every task to be done.
JoinWhenEmpty(unfinished) == audio_queue = <<>>

\* A join() that does not wait at all.
JoinReturnsAtOnce(unfinished) == TRUE

\* queue.Queue.join: returns once no task is unfinished.
JoinReturns(unfinished) == unfinished = 0

\* speak_stream, `self.audio_queue.join()`, and the return to the caller
\* (on_speech_detected, and from it the polling loop's reset).
SpeakStreamJoin ==
    /\ m_pc = "join"
    /\ JoinReturns(unfinished_tasks)
    /\ m_pc' = "reset_buffer"
    /\ UNCHANGED <<tts_vars, tts_obs, seg_vars, cap_vars>>

SpeakStream ==
    \/ SpeakStreamEnter
    \/ SentenceStreamingChunk
    \/ SentenceStreamingFlush
    \/ FullResponseChunk
    \/ FullResponseFlush
    \/ SpeakStreamJoin

---------------------------------------------------------------------------
(* AudioProcessor.record_with_vad: the capture callback and the polling    *)
(* loop.  The closure variable speech_detected is written and never read;  *)
(* it is left out.                                                         *)

\* self.sample_rate.
SampleRate == 16000
\* The stream's blocksize, int(self.sample_rate * 0.1).
BlockSize == SampleRate \div 10
\* The window the callback keeps, in seconds (max_buffer_size).
MaxBufferSeconds == 5
\* self.silence_duration in milliseconds, and the 0.1 s it is divided by.
SilenceDurationMs == 1500
PollMs == 100

\* Bounds of a run of the model: calls of detect_speech while the main
\* thread polls, between two turns; blocks delivered while the main thread
\* is busy with one turn; turns, with the worker thread running (TTS
\* enabled) and without it; and the silent blocks a warm start has already
\* buffered.
MaxVadCalls == 18
MaxTurnBlocks == 1
MaxTurns == 2
MaxTurnsNoTts == 1
WarmBlocks == 46

TurnLimit == IF enable_tts THEN MaxTurns ELSE MaxTurnsNoTts

\* Whether the main thread is in the polling loop, between turns.
Polling == m_pc = "poll"

\* Whether the input stream may deliver another block.
MayDeliver ==
    IF Polling
    THEN vad_calls < MaxVadCalls /\ turns < TurnLimit
    ELSE turn_blocks < MaxTurnBlocks

\* len(audio_buffer), in samples.
BufLen(buf) == Len(buf) * BlockSize
max_buffer_size == SampleRate * MaxBufferSeconds

\* A slice that drops nothing.
AllSamples(buf, n) == buf

\* audio_buffer[-n:] for n samples, n a whole number of blocks.
LastSamples(buf, n) ==
    IF BufLen(buf) <= n THEN buf
    ELSE SubSeq(buf, Len(buf) - (n \div BlockSize) + 1, Len(buf))

\* is_speaking_callback(): VoiceChatApp.is_ai_speaking reads the TTS event.
is_speaking_callback == is_speaking

\* A gate that never closes: the callback without its first two lines.
GatedNever(flag) == FALSE

\* audio_callback, `if is_speaking_callback(): return`: whether a call that
\* reads the flag as given returns at once.
Gated(flag) == flag

\* audio_callback, entry: the stream hands over one block; a gated call
\* returns, any other goes on with `audio_buffer.extend(indata[:, 0])`.
CallbackEnter ==
    /\ cb_pc = "idle"
    /\ stream_active
    /\ MayDeliver
    /\ delivered' = delivered + 1
    /\ turn_blocks' = IF Polling THEN 0 ELSE turn_blocks + 1
    /\ IF Gated(is_speaking_callback)
       THEN /\ cb_pc' = "idle"
            /\ gated' = gated + 1
            /\ UNCHANGED <<audio_buffer, cb_block>>
       ELSE /\ cb_pc' = "trim"
            /\ gated' = gated
            /\ cb_block' = delivered + 1
            /\ audio_buffer' = Append(audio_buffer, delivered + 1)
    /\ UNCHANGED <<tts_vars, tts_obs, seg_vars, m_pc, silence_counter,
                   recording, cb_local, vad_raised, turn_vars, vad_calls,
                   heard, episodes, utterances, turns>>

\* audio_callback, `if len(audio_buffer) > max_buffer_size:` and the slice
\* audio_buffer[-max_buffer_size:], not yet stored.
CallbackTrim ==
    /\ cb_pc = "trim"
    /\ IF BufLen(audio_buffer) > max_buffer_size
       THEN /\ cb_local' = LastSamples(audio_buffer, max_buffer_size)
            /\ cb_pc' = "trim_store"
       ELSE /\ cb_local' = cb_local
            /\ cb_pc' = "vad"
    /\ UNCHANGED <<tts_vars, tts_obs, seg_vars, m_pc, audio_buffer,
                   silence_counter, recording, cb_block, cap_obs, turn_vars,
                   vad_raised>>

\* audio_callback, the store of `audio_buffer = audio_buffer[-max_buffer_size:]`.
CallbackTrimStore ==
    /\ cb_pc = "trim_store"
    /\ audio_buffer' = cb_local
    /\ cb_local' = 0
    /\ cb_pc' = "vad"
    /\ UNCHANGED <<tts_vars, tts_obs, seg_vars, m_pc, silence_counter,
                   recording, cb_block, cap_obs, turn_vars, vad_raised>>

\* audio_callback, `if len(audio_buffer) >= self.sample_rate * 0.5:`.
VadRuns(buf) == 2 * BufLen(buf) >= SampleRate

\* How one call of detect_speech can go: the model finds speech timestamps,
\* finds none, or something in the call raises.
VadOutcomes == {"speech", "silence", "raised"}

\* A detector whose exception counts as speech.
DetectSpeechFailsOpen(outcome) == outcome # "silence"

\* detect_speech(audio_chunk): len(speech_timestamps) > 0, and False from
\* the except branch.
detect_speech(outcome) == outcome = "speech"

\* audio_callback, the length test and has_speech = self.detect_speech(
\* recent_audio): the detector may answer either way, or fail.
CallbackVad ==
    /\ cb_pc = "vad"
    /\ IF VadRuns(audio_buffer)
       THEN \E outcome \in VadOutcomes :
               LET has_speech == detect_speech(outcome)
               IN  /\ cb_pc' = IF has_speech THEN "speech" ELSE "silence"
                   /\ heard' = (heard \/ has_speech)
                   /\ vad_raised' = (outcome = "raised")
                   /\ vad_calls' = vad_calls + 1
       ELSE /\ cb_pc' = "idle"
            /\ UNCHANGED <<heard, vad_calls, vad_raised>>
    /\ UNCHANGED <<tts_vars, tts_obs, seg_vars, m_pc, audio_buffer,
                   silence_counter, recording, cb_block, cb_local, delivered,
                   turn_blocks, gated, episodes, utterances, turns, turn_vars>>

\* audio_callback, has_speech: `if not recording: recording = True`.
CallbackSpeech ==
    /\ cb_pc = "speech"
    /\ recording' = TRUE
    /\ episodes' = IF recording THEN episodes ELSE episodes + 1
    /\ cb_pc' = "speech_zero"
    /\ UNCHANGED <<tts_vars, tts_obs, seg_vars, m_pc, audio_buffer,
                   silence_counter, cb_block, cb_local, delivered,
                   turn_blocks, vad_calls, gated, heard, utterances, turns,
                   turn_vars, vad_raised>>

\* audio_callback, has_speech: `silence_counter = 0`, and return.
CallbackSpeechZero ==
    /\ cb_pc = "speech_zero"
    /\ silence_counter' = 0
    /\ cb_pc' = "idle"
    /\ UNCHANGED <<tts_vars, tts_obs, seg_vars, m_pc, audio_buffer, recording,
                   cb_block, cb_local, cap_obs, turn_vars, vad_raised>>

\* A counter stepped on every block without speech, recording or not.
SilenceCountsAlways(rec) == TRUE

\* audio_callback, no speech: whether the counter is stepped, and the value
\* `silence_counter += 1` computes from the counter it read.
SilenceCounts(rec) == rec
SilenceStep(n) == n + 1

\* audio_callback, no speech: `if recording:` and the read of
\* `silence_counter += 1`; when not recording the callback returns.
CallbackSilence ==
    /\ cb_pc = "silence"
    /\ IF SilenceCounts(recording)
       THEN /\ cb_local' = SilenceStep(silence_counter)
            /\ cb_pc' = "silence_store"
            /\ vad_raised' = vad_raised
       ELSE /\ cb_local' = cb_local
            /\ cb_pc' = "idle"
            /\ vad_raised' = FALSE
    /\ UNCHANGED <<tts_vars, tts_obs, seg_vars, m_pc, audio_buffer,
                   silence_counter, recording, cb_block, cap_obs, turn_vars>>

\* audio_callback, no speech: the store of `silence_counter += 1`, and return.
CallbackSilenceStore ==
    /\ cb_pc = "silence_store"
    /\ silence_counter' = cb_local
    /\ cb_local' = 0
    /\ vad_raised' = FALSE
    /\ cb_pc' = "idle"
    /\ UNCHANGED <<tts_vars, tts_obs, seg_vars, m_pc, audio_buffer, recording,
                   cb_block, cap_obs, turn_vars>>

Callback ==
    \/ CallbackEnter
    \/ CallbackTrim
    \/ CallbackTrimStore
    \/ CallbackVad
    \/ CallbackSpeech
    \/ CallbackSpeechZero
    \/ CallbackSilence
    \/ CallbackSilenceStore

\* The same condition with >= for both >.
FinalizableAtLeast(rec, silence, buf, speaking) ==
    /\ rec
    /\ silence * PollMs >= SilenceDurationMs
    /\ BufLen(buf) >= SampleRate
    /\ ~speaking

\* The condition of the polling loop's `if`, on the values it reads:
\* recording and silence_counter > (self.silence_duration / 0.1) and
\* len(audio_buffer) > self.sample_rate and not is_speaking_callback().
Finalizable(rec, silence, buf, speaking) ==
    /\ rec
    /\ silence * PollMs > SilenceDurationMs
    /\ BufLen(buf) > SampleRate
    /\ ~speaking

\* record_with_vad, `sd.sleep(100)` and the `if` of the polling loop: the
\* loop goes round until the condition holds.
MainPoll ==
    /\ m_pc = "poll"
    /\ m_pc' = IF Finalizable(recording, silence_counter, audio_buffer,
                              is_speaking_callback)
               THEN "snapshot" ELSE "poll"
    /\ UNCHANGED <<tts_vars, tts_obs, seg_vars, cap_vars>>

\* record_with_vad, `audio_array = np.array(audio_buffer)`: the samples
\* saved to the temporary file and transcribed.
Snapshot(buf) == buf

MainSnapshot ==
    /\ m_pc = "snapshot"
    /\ utterances' = Append(utterances, Snapshot(audio_buffer))
    /\ turns' = turns + 1
    /\ m_pc' = "transcribe"
    /\ UNCHANGED <<tts_vars, tts_obs, seg_vars, audio_buffer, silence_counter,
                   recording, cb_vars, delivered, turn_blocks, vad_calls,
                   gated, heard, episodes, turn_vars>>

\* Replies the reply model streams, as fragment sequences.
ReplyThree == << <<"a", ".", " ">>, <<"b", "?", " ", "c">>, <<"!">> >>
ReplyBlank == << <<" ">> >>
Replies == {ReplyThree, ReplyBlank}

\* How a call of generate_response can go: the chunks the model stream
\* delivers and how it ends.  The stream can fail before its first chunk
\* or after some.
ReplyStreams ==
    {<<r, "return">> : r \in Replies}
        \cup {<<SubSeq(ReplyThree, 1, n), "raise">> : n \in {0, 2}}

\* What the user said, when the transcriber makes it out.
Prompt == <<"h", "i">>

\* How one call of transcribe_audio can go: the model returns text, returns
\* none, or something in the call raises.
SttOutcomes == {"text", "empty", "raised"}

\* transcribe_audio(audio_file_path): the stripped text, and "" from the
\* except branch.
transcribe_audio(outcome) == IF outcome = "text" THEN Prompt ELSE <<>>

\* A turn that asks for a reply whatever was transcribed.
RepliesAlways(text) == TRUE

\* record_with_vad, `if transcription:`.
WantsReply(text) == text # <<>>

\* record_with_vad, transcribe_audio and `if transcription:
\* on_speech_callback(transcription)`: with no text the turn goes straight
\* to the reset; otherwise on_speech_detected builds the reply generator
\* and hands it to speak_stream.
MainTranscribe ==
    /\ m_pc = "transcribe"
    /\ \E outcome \in SttOutcomes :
          /\ transcription' = transcribe_audio(outcome)
          /\ stt_raised' = (outcome = "raised")
          /\ IF WantsReply(transcribe_audio(outcome))
             THEN \E g \in ReplyStreams :
                     /\ text_generator' = g[1]
                     /\ fragments' = g[1]
                     /\ generator_end' = g[2]
                     /\ m_pc' = "speak_stream"
             ELSE /\ m_pc' = "reset_buffer"
                  /\ UNCHANGED <<text_generator, fragments, generator_end>>
    /\ UNCHANGED <<tts_vars, tts_obs, sentence_buffer, full_response,
                   conversation_history, audio_buffer, silence_counter,
                   recording, cb_vars, stream_active, cap_obs>>

\* A reset that leaves recording as it is.
ResetRecordingKept == recording

\* record_with_vad, the values of the reset after a turn.
ResetBuffer == <<>>
ResetCounter == 0
ResetRecording == FALSE

\* record_with_vad, `audio_buffer = []`.
MainResetBuffer ==
    /\ m_pc = "reset_buffer"
    /\ audio_buffer' = ResetBuffer
    /\ m_pc' = "reset_counter"
    /\ UNCHANGED <<tts_vars, tts_obs, seg_vars, silence_counter, recording,
                   cb_vars, cap_obs, turn_vars>>

\* record_with_vad, `silence_counter = 0`.
MainResetCounter ==
    /\ m_pc = "reset_counter"
    /\ silence_counter' = ResetCounter
    /\ m_pc' = "reset_recording"
    /\ UNCHANGED <<tts_vars, tts_obs, seg_vars, audio_buffer, recording,
                   cb_vars, cap_obs, turn_vars>>

\* record_with_vad, `speech_detected = False; recording = False`, and back
\* to the top of the loop.  The turn is over: the observations kept per
\* turn start afresh.
MainResetRecording ==
    /\ m_pc = "reset_recording"
    /\ recording' = ResetRecording
    /\ turn_blocks' = 0
    /\ vad_calls' = 0
    /\ stt_raised' = FALSE
    /\ fragments' = <<>>
    /\ enqueued' = <<>>
    /\ taken' = <<>>
    /\ rendered' = <<>>
    /\ m_pc' = "poll"
    /\ UNCHANGED <<tts_vars, text_generator, sentence_buffer, full_response,
                   llm_vars, audio_buffer, silence_counter, cb_vars,
                   stream_active, transcription, delivered, gated, heard,
                   episodes, utterances, turns>>

Main ==
    \/ MainPoll
    \/ MainSnapshot
    \/ MainTranscribe
    \/ MainResetBuffer
    \/ MainResetCounter
    \/ MainResetRecording

---------------------------------------------------------------------------
(* Start and shutdown: VoiceChatApp.run around record_with_vad, the        *)
(* KeyboardInterrupt of Ctrl+C, VoiceChatApp.cleanup and __del__, and      *)
(* TTSProcessor.cleanup.  One interrupt is delivered per run.              *)

\* record_with_vad, entry: the print and the locals, then the input stream
\* is opened and the polling loop begins.
MainOpenStream ==
    /\ m_pc = "listen"
    /\ stream_active' = TRUE
    /\ m_pc' = "poll"
    /\ UNCHANGED <<tts_vars, tts_obs, seg_vars, audio_buffer, silence_counter,
                   recording, cb_vars, transcription, stt_raised, cap_obs>>

\* Ctrl+C before record_with_vad has entered its try: the KeyboardInterrupt
\* reaches run's own except branch, which calls cleanup().
MainInterruptOutside ==
    /\ m_pc = "listen"
    /\ m_pc' = "run_except"
    /\ UNCHANGED <<tts_vars, tts_obs, seg_vars, cap_vars>>

\* Where the main thread is while inside the try of record_with_vad: in the
\* polling loop or in the turn it runs.
InsideTry ==
    {"poll", "snapshot", "transcribe", "speak_stream", "sentence_streaming",
     "full_response", "join", "reset_buffer", "reset_counter",
     "reset_recording"}

\* Where Ctrl+C inside the try of record_with_vad leads: `except
\* KeyboardInterrupt: return False`, run's `if not still_running: break`,
\* and run returns.
AfterInterrupt == "run_returned"

\* Ctrl+C inside the try of record_with_vad.  Leaving the `with` stops the
\* input stream, which waits for a running callback to return; the locals
\* of record_with_vad and of the turn are gone with their frames.
MainInterruptInside ==
    /\ m_pc \in InsideTry
    /\ cb_pc = "idle"
    /\ stream_active' = FALSE
    /\ audio_buffer' = <<>>
    /\ silence_counter' = 0
    /\ recording' = FALSE
    /\ transcription' = <<>>
    /\ stt_raised' = FALSE
    /\ text_generator' = <<>>
    /\ generator_end' = "stop"
    /\ sentence_buffer' = <<>>
    /\ full_response' = <<>>
    /\ fragments' = <<>>
    /\ turn_blocks' = 0
    /\ vad_calls' = 0
    /\ m_pc' = AfterInterrupt
    /\ UNCHANGED <<tts_vars, tts_obs, conversation_history, cb_vars, delivered,
                   gated, heard, episodes, utterances, turns>>

\* self.tts_thread and self.tts_thread.is_alive().
ThreadAlive == w_pc \notin {"none", "exit"}

\* A cleanup that only waits.
CleanupPutsNothing == <<>>

\* TTSProcessor.cleanup, what it puts for a live worker: the shutdown signal.
CleanupPuts == << None >>

\* TTSProcessor.cleanup up to the join, called at from: without a live
\* worker thread it returns at once (to done), otherwise it puts None and
\* goes on to wait (at joining).
CleanupEnter(from, joining, done) ==
    /\ m_pc = from
    /\ IF ThreadAlive
       THEN QueuePut(CleanupPuts) /\ m_pc' = joining
       ELSE /\ m_pc' = done
            /\ UNCHANGED <<audio_queue, unfinished_tasks, enqueued>>
    /\ UNCHANGED <<enable_tts, stream_by_sentence, is_speaking, w_pc, w_text,
                   clean_text, taken, rendered, seg_vars, cap_vars>>

\* A join that waits for the thread however long it takes.
JoinWaitsForever(alive) == ~alive

\* threading.Thread.join(timeout=2): returns when the thread has ended, or
\* when the two seconds are over, whichever the clock decides.
ThreadJoinReturns(alive) == TRUE

\* TTSProcessor.cleanup, `self.tts_thread.join(timeout=2)`, and the return.
CleanupJoin(joining, done) ==
    /\ m_pc = joining
    /\ ThreadJoinReturns(ThreadAlive)
    /\ m_pc' = done
    /\ UNCHANGED <<tts_vars, tts_obs, seg_vars, cap_vars>>

\* run's `except KeyboardInterrupt: self.cleanup()`, after which run returns.
RunCleanupEnter == CleanupEnter("run_except", "run_join", "run_returned")
RunCleanupJoin == CleanupJoin("run_join", "run_returned")

\* VoiceChatApp.__del__ once main() lets go of the app: cleanup() again;
\* after it the process ends, and its daemon worker thread with it.
DelCleanupEnter == CleanupEnter("run_returned", "del_join", "finalized")
DelCleanupJoin == CleanupJoin("del_join", "finalized")

\* Whether the process is still there to run its daemon thread.
ProcessAlive == m_pc # "finalized"

Start == MainOpenStream \/ MainInterruptOutside \/ RunCleanupEnter \/ RunCleanupJoin

Shutdown == MainInterruptInside \/ DelCleanupEnter \/ DelCleanupJoin

---------------------------------------------------------------------------
(* The application: VoiceChatApp.run with all three threads.               *)

\* TTSProcessor.__init__: an empty queue, the flag clear, the worker started
\* when TTS is asked for and available.  enable_tts is the attribute as the
\* constructor leaves it: when _initialize_tts fails it is switched off and
\* the worker thread is started all the same.
TtsInit ==
    /\ audio_queue = <<>>
    /\ unfinished_tasks = 0
    /\ is_speaking = FALSE
    /\ w_pc \in (IF enable_tts THEN {"get"} ELSE {"get", "none"})
    /\ w_text = <<>>
    /\ clean_text = <<>>
    /\ enqueued = <<>>
    /\ taken = <<>>
    /\ rendered = <<>>

\* No speak_stream call is running.
SegInit ==
    /\ text_generator = <<>>
    /\ generator_end = "stop"
    /\ conversation_history = <<>>
    /\ fragments = <<>>
    /\ sentence_buffer = <<>>
    /\ full_response = <<>>

\* record_with_vad at the top of its loop, Idle, with n blocks buffered for
\* which detect_speech has reported no speech: n = 0 is the state right
\* after the locals are initialised.
CaptureInit(n) ==
    /\ audio_buffer = [i \in 1..n |-> i]
    /\ silence_counter = 0
    /\ recording = FALSE
    /\ cb_pc = "idle"
    /\ cb_block = 0
    /\ cb_local = 0
    /\ vad_raised = FALSE
    /\ transcription = <<>>
    /\ stt_raised = FALSE
    /\ delivered = n
    /\ turn_blocks = 0
    /\ vad_calls = 0
    /\ gated = 0
    /\ heard = FALSE
    /\ episodes = 0
    /\ utterances = <<>>
    /\ turns = 0

\* VoiceChatApp.__init__ and the first entry of record_with_vad.  With the
\* worker thread the run starts cold; without it (--no-tts, where
\* stream_by_sentence is never read) it starts warm, the window nearly full.
Init ==
    /\ enable_tts \in BOOLEAN
    /\ stream_by_sentence \in (IF enable_tts THEN BOOLEAN ELSE {FALSE})
    /\ TtsInit
    /\ SegInit
    /\ CaptureInit(IF enable_tts THEN 0 ELSE WarmBlocks)
    /\ stream_active = ~enable_tts
    /\ m_pc = (IF enable_tts THEN "listen" ELSE "poll")

Next ==
    \/ Start
    \/ Callback
    \/ Main
    \/ SpeakStream
    \/ (ProcessAlive /\ Worker)
    \/ Shutdown

Spec == Init /\ [][Next]_vars

---------------------------------------------------------------------------
(* speak_stream on its own: one call, on a reply given in advance.         *)

\* The fragments of test_speak_stream_enabled, and the two sentences of
\* its text.
ExampleFragment1 ==
    <<"H", "e", "l", "l", "o", ",", " ", "t", "h", "i", "s", " " >>

ExampleFragment2 ==
    <<"i", "s", " ", "t", "h", "e", " ", "f", "i", "r", "s", "t", " ", "s",
      "e", "n", "t", "e", "n", "c", "e", ".", " " >>

ExampleFragment3 ==
    <<"A", "n", "d", " ", "t", "h", "i", "s", " ", "i", "s", " ", "t", "h",
      "e", " ", "r", "e", "s", "t", " " >>

ExampleFragment4 ==
    <<"o", "f", " ", "t", "h", "e", " ", "t", "e", "x", "t", ",", " ", "a",
      "l", "l", " ", "t", "o", "g", "e", "t", "h", "e", "r", " ", "n", "o",
      "w", "!" >>

ExampleUnit1 ==
    <<"H", "e", "l", "l", "o", ",", " ", "t", "h", "i", "s", " ", "i", "s",
      " ", "t", "h", "e", " ", "f", "i", "r", "s", "t", " ", "s", "e", "n",
      "t", "e", "n", "c", "e", "." >>

ExampleUnit2 ==
    <<"A", "n", "d", " ", "t", "h", "i", "s", " ", "i", "s", " ", "t", "h",
      "e", " ", "r", "e", "s", "t", " ", "o", "f", " ", "t", "h", "e", " ",
      "t", "e", "x", "t", ",", " ", "a", "l", "l", " ", "t", "o", "g", "e",
      "t", "h", "e", "r", " ", "n", "o", "w", "!" >>

ExampleFragments ==
    << ExampleFragment1, ExampleFragment2, ExampleFragment3, ExampleFragment4 >>

\* Bounds of the replies the segmenter is run on: fragments per reply and
\* characters per fragment, over a letter, a terminator and a space.
MaxFragments == 2
MaxFragmentLen == 2
Alphabet == {"a", ".", " "}

Texts(n) == UNION { [1..k -> Alphabet] : k \in 0..n }
FragmentSeqs == UNION { [1..k -> Texts(MaxFragmentLen)] : k \in 0..MaxFragments }

\* A TTSProcessor with its worker thread, and a caller about to enter
\* speak_stream(text_generator) with the reply r; the capture side at rest.
CallInit(r) ==
    /\ enable_tts = TRUE
    /\ stream_by_sentence \in BOOLEAN
    /\ TtsInit
    /\ text_generator = r
    /\ generator_end = "stop"
    /\ conversation_history = <<>>
    /\ fragments = r
    /\ sentence_buffer = <<>>
    /\ full_response = <<>>
    /\ CaptureInit(0)
    /\ stream_active = FALSE
    /\ m_pc = "speak_stream"

\* The segmenter alone: the producer side of speak_stream up to the join,
\* for every bounded reply and the example.
InitSeg == \E r \in FragmentSeqs \cup {ExampleFragments, ReplyThree} : CallInit(r)

NextSeg ==
    \/ SpeakStreamEnter
    \/ SentenceStreamingChunk
    \/ SentenceStreamingFlush
    \/ FullResponseChunk
    \/ FullResponseFlush

SpecSeg == InitSeg /\ [][NextSeg]_vars

\* speak_stream against the worker thread.
InitTts == \E r \in Replies \cup {ExampleFragments} : CallInit(r)

NextTts == SpeakStream \/ Worker

SpecTts == InitTts /\ [][NextTts]_vars

\* Both threads are scheduled: the worker thread and the caller keep running.
SpecTtsFair == SpecTts /\ WF_vars(Worker) /\ WF_vars(SpeakStream)

---------------------------------------------------------------------------
(* One turn of the application and its shutdown: the reply of a finalized  *)
(* utterance is generated and spoken; Ctrl+C may end the run at any point. *)

\* The blocks of the shortest first utterance of a cold start: four blocks
\* before detect_speech is first called, one it finds speech in, and
\* sixteen it finds none in.
FirstUtteranceBlocks == 21

\* The polling loop has finalized that utterance, transcribe_audio has made
\* out the prompt, and on_speech_detected is about to consume the reply
\* generator whose stream goes as g; no callback is running.
TurnInit(g) ==
    /\ enable_tts \in BOOLEAN
    /\ stream_by_sentence \in (IF enable_tts THEN BOOLEAN ELSE {FALSE})
    /\ TtsInit
    /\ text_generator = g[1]
    /\ generator_end = g[2]
    /\ conversation_history = <<>>
    /\ fragments = g[1]
    /\ sentence_buffer = <<>>
    /\ full_response = <<>>
    /\ audio_buffer = [i \in 1..FirstUtteranceBlocks |-> i]
    /\ silence_counter = FirstUtteranceBlocks - 5
    /\ recording = TRUE
    /\ cb_pc = "idle"
    /\ cb_block = FirstUtteranceBlocks
    /\ cb_local = 0
    /\ vad_raised = FALSE
    /\ stream_active = TRUE
    /\ transcription = Prompt
    /\ stt_raised = FALSE
    /\ delivered = FirstUtteranceBlocks
    /\ turn_blocks = 0
    /\ vad_calls = FirstUtteranceBlocks - 4
    /\ gated = 0
    /\ heard = TRUE
    /\ episodes = 1
    /\ utterances = << [i \in 1..FirstUtteranceBlocks |-> i] >>
    /\ turns = 1
    /\ m_pc = "speak_stream"

InitTurn == \E g \in ReplyStreams : TurnInit(g)

NextTurn == SpeakStream \/ (ProcessAlive /\ Worker) \/ Shutdown

SpecTurn == InitTurn /\ [][NextTurn]_vars

\* The main thread keeps running once it is in cleanup(); nothing is
\* assumed of the worker thread or of the interrupt.
SpecTurnFair == SpecTurn /\ WF_vars(DelCleanupEnter \/ DelCleanupJoin)

---------------------------------------------------------------------------
(* Text cleaning: one unit waiting in the queue of a full-response call    *)
(* whose caller is in join(), for every bounded text and for the examples  *)
(* of test_clean_text_for_tts; the worker takes it, cleans and speaks it.  *)

\* Bounds of the texts, and the characters they are made of.
MaxCleanLen == 4
CleanAlphabet ==
    {"a", "*", "_", " ", "\t", EmDash, EnDash, "[", "]", "(", ")"}

\* test_clean_text_for_tts: "A sentence with *markdown* and _underscores_."
\* and what is expected of it, "A sentence with markdown and underscores.".
MarkdownExample ==
    <<"A", " ", "s", "e", "n", "t", "e", "n", "c", "e", " ", "w", "i", "t",
      "h", " ", "*", "m", "a", "r", "k", "d", "o", "w", "n", "*", " ", "a",
      "n", "d", " ", "_", "u", "n", "d", "e", "r", "s", "c", "o", "r", "e",
      "s", "_", "." >>
MarkdownCleaned ==
    <<"A", " ", "s", "e", "n", "t", "e", "n", "c", "e", " ", "w", "i", "t",
      "h", " ", "m", "a", "r", "k", "d", "o", "w", "n", " ", "a", "n", "d",
      " ", "u", "n", "d", "e", "r", "s", "c", "o", "r", "e", "s", "." >>

\* "[gone] A normal sentence." (the test has a longer bracket), and what
\* is expected, " A normal sentence.".
BracketExample ==
    <<"[", "g", "o", "n", "e", "]", " ", "A", " ", "n", "o", "r", "m", "a",
      "l", " ", "s", "e", "n", "t", "e", "n", "c", "e", "." >>
BracketCleaned ==
    <<" ", "A", " ", "n", "o", "r", "m", "a", "l", " ", "s", "e", "n", "t",
      "e", "n", "c", "e", "." >>

\* test_clean_text_for_tts: "A sentence with (parentheses) in it."
\* and what is expected of it, "A sentence with  in it.".
ParenExample ==
    <<"A", " ", "s", "e", "n", "t", "e", "n", "c", "e", " ", "w", "i", "t",
      "h", " ", "(", "p", "a", "r", "e", "n", "t", "h", "e", "s", "e", "s",
      ")", " ", "i", "n", " ", "i", "t", "." >>
ParenCleaned ==
    <<"A", " ", "s", "e", "n", "t", "e", "n", "c", "e", " ", "w", "i", "t",
      "h", " ", " ", "i", "n", " ", "i", "t", "." >>

CleanExamples == {MarkdownExample, BracketExample, ParenExample}

\* The units the segmenter can put: stripped and not empty.
CleanTexts ==
    {t \in UNION { [1..k -> CleanAlphabet] : k \in 1..MaxCleanLen } : strip(t) = t}
        \cup CleanExamples

\* _process_full_response has put the unit t, its only one, and speak_stream
\* has gone on to join(); the worker has not taken it yet.
UnitInit(t) ==
    /\ enable_tts = TRUE
    /\ stream_by_sentence = FALSE
    /\ audio_queue = << t >>
    /\ unfinished_tasks = 1
    /\ is_speaking = FALSE
    /\ w_pc = "get"
    /\ w_text = <<>>
    /\ clean_text = <<>>
    /\ enqueued = << t >>
    /\ taken = <<>>
    /\ rendered = <<>>
    /\ text_generator = <<>>
    /\ generator_end = "stop"
    /\ conversation_history = <<>>
    /\ fragments = << t >>
    /\ sentence_buffer = <<>>
    /\ full_response = t
    /\ CaptureInit(0)
    /\ stream_active = FALSE
    /\ m_pc = "join"

InitClean == \E t \in CleanTexts : UnitInit(t)

NextClean == Worker \/ SpeakStreamJoin

SpecClean == InitClean /\ [][NextClean]_vars

---------------------------------------------------------------------------
(* A long utterance: the user has been speaking without a pause since the  *)
(* first voice-activity test, for as long as the buffer holds, and goes on  *)
(* or falls silent.  TTS is off; the capture loop runs as in Spec.          *)

\* Bound: the blocks delivered so far, all of them accepted.
SpokenBlocks == 50

\* The block on which detect_speech first ran, and found speech: the first
\* that makes 0.5 s of audio.
EpisodeStart == SampleRate \div (2 * BlockSize)

LongSpeechInit ==
    /\ enable_tts = FALSE
    /\ stream_by_sentence = FALSE
    /\ TtsInit
    /\ SegInit
    /\ audio_buffer = LastSamples([i \in 1..SpokenBlocks |-> i], max_buffer_size)
    /\ silence_counter = 0
    /\ recording = TRUE
    /\ cb_pc = "idle"
    /\ cb_block = SpokenBlocks
    /\ cb_local = 0
    /\ vad_raised = FALSE
    /\ transcription = <<>>
    /\ stt_raised = FALSE
    /\ delivered = SpokenBlocks
    /\ turn_blocks = 0
    /\ vad_calls = 0
    /\ gated = 0
    /\ heard = TRUE
    /\ episodes = 1
    /\ utterances = <<>>
    /\ turns = 0
    /\ stream_active = TRUE
    /\ m_pc = "poll"

NextLong == Callback \/ Main \/ SpeakStreamEnter

SpecLong == LongSpeechInit /\ [][NextLong]_vars

---------------------------------------------------------------------------
(* A TTSProcessor used directly: the caller may call cleanup() and then,   *)
(* or at once, speak_stream or speak_text with the reply.                  *)

ApiInit ==
    \E r \in Replies \cup {ExampleFragments} :
        /\ enable_tts = TRUE
        /\ stream_by_sentence \in BOOLEAN
        /\ TtsInit
        /\ text_generator = r
        /\ generator_end = "stop"
        /\ conversation_history = <<>>
        /\ fragments = r
        /\ sentence_buffer = <<>>
        /\ full_response = <<>>
        /\ CaptureInit(0)
        /\ stream_active = FALSE
        /\ m_pc \in {"cleanup", "call"}

\* TTSProcessor.cleanup called by the user of the processor.
ApiCleanupEnter == CleanupEnter("cleanup", "cleanup_join", "call")
ApiCleanupJoin == CleanupJoin("cleanup_join", "call")

\* The caller goes on to speak_stream(text_generator) or speak_text(text).
ApiCall ==
    /\ m_pc = "call"
    /\ m_pc' \in {"speak_stream", "speak_text"}
    /\ UNCHANGED <<tts_vars, tts_obs, seg_vars, cap_vars>>

\* speak_text(text) for the reply as one string: without TTS it prints and
\* returns; a text that is not blank is put, stripped, and the call goes
\* on to audio_queue.join(); a blank text returns at once.
SpeakText ==
    /\ m_pc = "speak_text"
    /\ LET text == Concat(fragments)
       IN  IF TtsDisabled(enable_tts) \/ FlushPuts(text) = <<>>
           THEN /\ m_pc' = "reset_buffer"
                /\ UNCHANGED <<audio_queue, unfinished_tasks, enqueued>>
           ELSE /\ QueuePut(FlushPuts(text))
                /\ m_pc' = "join"
    /\ UNCHANGED <<enable_tts, stream_by_sentence, is_speaking, w_pc, w_text,
                   clean_text, taken, rendered, seg_vars, cap_vars>>

\* The thread that uses the processor.
Caller ==
    \/ ApiCleanupEnter
    \/ ApiCleanupJoin
    \/ ApiCall
    \/ SpeakText
    \/ SpeakStream

NextApi == Caller \/ Worker

SpecApi == ApiInit /\ [][NextApi]_vars

\* Both threads are scheduled.
SpecApiFair == SpecApi /\ WF_vars(Caller) /\ WF_vars(Worker)

---------------------------------------------------------------------------
(* An LLMProcessor over many calls: each prompt is answered by            *)
(* generate_response, consumed to its end, or by                          *)
(* generate_one_time_response; the model may fail in any call.            *)

\* Bound: the calls made after the ones the history starts with.
MaxLlmCalls == 3

\* The prompt of the n-th call.
PromptOf(n) == [i \in 1..n |-> "h"]

\* generate_one_time_response, the except branch.
OneTimeOnError(history, text) == Append(history, <<text, error_response>>)

\* generate_one_time_response after invoke(): the pair appended, the
\* history cut to its last max_history_pairs pairs.
OneTimeOnReturn(history, text, response) ==
    LET appended == Append(history, <<text, response>>)
    IN  IF Len(appended) > max_history_pairs
        THEN SubSeq(appended, Len(appended) - max_history_pairs + 1,
                    Len(appended))
        ELSE appended

\* The processor after k calls that went well, the history one pair short
\* of its limit or at it.
LlmInit ==
    \E k \in (max_history_pairs - 1)..max_history_pairs :
        /\ enable_tts = FALSE
        /\ stream_by_sentence = FALSE
        /\ TtsInit
        /\ text_generator = <<>>
        /\ generator_end = "stop"
        /\ conversation_history =
               [i \in 1..k |-> <<PromptOf(i), Concat(ReplyThree)>>]
        /\ fragments = <<>>
        /\ sentence_buffer = <<>>
        /\ full_response = <<>>
        /\ audio_buffer = <<>>
        /\ silence_counter = 0
        /\ recording = FALSE
        /\ cb_pc = "idle"
        /\ cb_block = 0
        /\ cb_local = 0
        /\ vad_raised = FALSE
        /\ transcription = <<>>
        /\ stt_raised = FALSE
        /\ delivered = 0
        /\ turn_blocks = 0
        /\ vad_calls = 0
        /\ gated = 0
        /\ heard = FALSE
        /\ episodes = 0
        /\ utterances = <<>>
        /\ turns = k
        /\ stream_active = FALSE
        /\ m_pc = "llm_idle"

\* generate_response(text) called: the generator is created, nothing of
\* its body has run.
LlmCallStream ==
    /\ m_pc = "llm_idle"
    /\ turns < max_history_pairs + MaxLlmCalls
    /\ \E g \in ReplyStreams :
          /\ text_generator' = g[1]
          /\ fragments' = g[1]
          /\ generator_end' = g[2]
    /\ transcription' = PromptOf(turns + 1)
    /\ turns' = turns + 1
    /\ m_pc' = "llm_stream"
    /\ UNCHANGED <<tts_vars, tts_obs, sentence_buffer, full_response,
                   conversation_history, audio_buffer, silence_counter,
                   recording, cb_vars, stream_active, stt_raised, delivered,
                   turn_blocks, vad_calls, gated, heard, episodes, utterances>>

\* The caller iterates over the generator, to its end.
LlmConsume ==
    /\ m_pc = "llm_stream"
    /\ \/ GeneratorNext /\ m_pc' = m_pc
       \/ GeneratorStop /\ m_pc' = "llm_idle"
    /\ UNCHANGED <<tts_vars, tts_obs, sentence_buffer, full_response, cap_vars>>

\* generate_one_time_response(text), from call to return: invoke() hands
\* back a reply or raises.
LlmOneTime ==
    /\ m_pc = "llm_idle"
    /\ turns < max_history_pairs + MaxLlmCalls
    /\ \E outcome \in {"return", "raise"} :
          conversation_history' =
              IF outcome = "return"
              THEN OneTimeOnReturn(conversation_history, PromptOf(turns + 1),
                                   Concat(ReplyThree))
              ELSE OneTimeOnError(conversation_history, PromptOf(turns + 1))
    /\ transcription' = PromptOf(turns + 1)
    /\ turns' = turns + 1
    /\ UNCHANGED <<tts_vars, tts_obs, text_generator, sentence_buffer,
                   full_response, fragments, generator_end, audio_buffer,
                   silence_counter, recording, cb_vars, stream_active,
                   stt_raised, delivered, turn_blocks, vad_calls, gated,
                   heard, episodes, utterances, m_pc>>

NextLlm == LlmCallStream \/ LlmConsume \/ LlmOneTime

SpecLlm == LlmInit /\ [][NextLlm]_vars

---------------------------------------------------------------------------
(* Properties.                                                             *)

\* The units of a queue or of a history, the shutdown signal left out.
UnitsOf(q) == SelectSeq(q, LAMBDA u : u # None)

\* The call of speak_stream has returned from audio_queue.join().
Drained == m_pc = "reset_buffer"

\* C1: a call of the capture callback that finds the speaking flag set
\* returns at once: the audio buffer, the recording state and the silence
\* counter are as before, whatever the block and the state.
C1_MicGating ==
    [][(cb_pc = "idle" /\ delivered' = delivered + 1 /\ is_speaking)
         => (cb_pc' = "idle"
             /\ UNCHANGED <<audio_buffer, recording, silence_counter>>)]_vars

\* A block was discarded while an utterance was recorded and buffered.
C1_Witness ==
    /\ gated > 0
    /\ is_speaking
    /\ recording
    /\ audio_buffer # <<>>

\* C2: the worker takes the units in the order they were put, hands each to
\* _generate_and_play_speech once, and has at most one unit taken and not
\* yet rendered; once the queue has drained every unit put was rendered.
C2_FifoOnce ==
    /\ UnitsOf(taken) \o UnitsOf(audio_queue) = UnitsOf(enqueued)
    /\ Len(taken) - Len(rendered) \in {0, 1}
    /\ \A i \in 1..Len(rendered) : rendered[i][1] = taken[i]
    /\ (Len(taken) > Len(rendered)) = (w_pc \in {"set", "generate", "play"})
    /\ (Drained => Len(rendered) = Len(UnitsOf(enqueued)))

\* Three units were put, taken and rendered, and the queue has drained.
C2_Witness ==
    /\ Len(rendered) = 3
    /\ unfinished_tasks = 0
    /\ audio_queue = <<>>

\* C3: the speaking flag is clear as long as nothing has been put on the
\* queue, and it is clear when audio_queue.join() returns.
C3_FlagClearAtEnds ==
    /\ (enqueued = <<>> => ~is_speaking)
    /\ (Drained => ~is_speaking)

\* join() has returned after units were put and spoken.
C3_Witness ==
    /\ Drained
    /\ enqueued # <<>>
    /\ Len(rendered) = Len(enqueued)

\* The worker has not left its loop.
WorkerAlive == w_pc # "exit"

\* C4: whatever way _generate_and_play_speech ends, the worker clears the
\* flag, marks the task done and goes on: it never leaves its loop, never
\* holds the flag between two units, and the call of speak_stream comes
\* back from join() with every unit rendered and the flag clear.
C4_FailureContained ==
    /\ [](WorkerAlive
          /\ (w_pc \in {"task_done", "get", "set"} => ~is_speaking)
          /\ (Drained => /\ Len(rendered) = Len(enqueued)
                         /\ audio_queue = <<>>
                         /\ ~is_speaking))
    /\ [][(w_pc \in {"generate", "play"} /\ w_pc' \notin {"generate", "play"})
              => w_pc' = "clear"]_vars
    /\ <>(Drained /\ WorkerAlive /\ ~is_speaking)

\* Of three units the second failed and the first and third were played.
C4_Witness ==
    /\ Drained
    /\ ~is_speaking
    /\ Len(rendered) = 3
    /\ rendered[1][2] = "played"
    /\ rendered[2][2] = "fallback"
    /\ rendered[3][2] = "played"

\* Text made of whitespace only, and text with a sentence end inside: a
\* terminator followed by whitespace.
AllSpace(t) == \A i \in 1..Len(t) : t[i] \in Whitespace
HasBoundary(t) ==
    \E i \in 1..(Len(t) - 1) : t[i] \in Terminators /\ t[i + 1] \in Whitespace

\* The positions of t that hold something else than whitespace, and t
\* between the first and the last of them.
Ink(t) == {i \in 1..Len(t) : t[i] \notin Whitespace}
FirstInk(t) == CHOOSE i \in Ink(t) : \A j \in Ink(t) : i <= j
LastInk(t) == CHOOSE i \in Ink(t) : \A j \in Ink(t) : j <= i
Core(t) == IF Ink(t) = {} THEN <<>> ELSE SubSeq(t, FirstInk(t), LastInk(t))

RECURSIVE Rebuilds(_, _)
\* t is the units us in order with nothing but whitespace before, between
\* and after them.
Rebuilds(t, us) ==
    IF us = <<>> THEN AllSpace(t)
    ELSE /\ Ink(t) # {}
         /\ LET u == Head(us)
                k == FirstInk(t)
            IN  /\ k + Len(u) - 1 <= Len(t)
                /\ SubSeq(t, k, k + Len(u) - 1) = u
                /\ Rebuilds(SubSeq(t, k + Len(u), Len(t)), Tail(us))

\* The input of the running call is exhausted and its units are all put.
Exhausted == m_pc = "join"

\* C5 as stated: the units of the sentence segmenter, concatenated, are the
\* fragments concatenated, whitespace included.
C5_ExactConcatenation ==
    (Exhausted /\ stream_by_sentence) => Concat(enqueued) = Concat(fragments)

\* C5, amended: the fragments concatenated are the units in order with
\* only whitespace before, between and after them; nothing else is
\* dropped, doubled or moved.
C5_ConcatenationUpToSpace ==
    (Exhausted /\ stream_by_sentence) => Rebuilds(Concat(fragments), enqueued)

\* Two sentences were put and the whitespace between them is gone.
C5_Witness ==
    /\ Exhausted
    /\ stream_by_sentence
    /\ Len(enqueued) = 2
    /\ Len(Concat(enqueued)) < Len(Concat(fragments))

RECURSIVE SentenceRun(_, _)
\* x is the sentences us one after the other: each one, after whitespace
\* that may lead it, ends in a terminator, holds no sentence end inside and
\* is followed by whitespace.
SentenceRun(x, us) ==
    IF us = <<>> THEN AllSpace(x)
    ELSE /\ Ink(x) # {}
         /\ LET u == Head(us)
                k == FirstInk(x)
                e == k + Len(u) - 1
            IN  /\ Len(u) > 0
                /\ e < Len(x)
                /\ SubSeq(x, k, e) = u
                /\ u[Len(u)] \in Terminators
                /\ ~HasBoundary(u)
                /\ x[e + 1] \in Whitespace
                /\ SentenceRun(SubSeq(x, e + 2, Len(x)), Tail(us))

\* What the running call has taken from its generator so far.
Consumed ==
    Concat(SubSeq(fragments, 1, Len(fragments) - Len(text_generator)))

\* C6 as stated, at the end of the input: a remainder that is not empty is
\* put as one more, final unit.
C6_RemainderAlwaysPut ==
    [][(m_pc = "sentence_streaming" /\ m_pc' = "join" /\ sentence_buffer # <<>>)
         => Len(enqueued') = Len(enqueued) + 1]_vars

\* C6, amended: in sentence-streaming mode the text taken so far is the
\* sentences put so far followed by the buffer; every sentence put ends at
\* a terminator that whitespace follows and holds no such place inside, and
\* neither does the buffer; at the end of the input the buffer, without the
\* whitespace around it, is put as the final unit unless it is whitespace
\* only.  The four example fragments give exactly the two example units.
C6_SentenceStreaming ==
    /\ (stream_by_sentence /\ m_pc \in {"sentence_streaming", "join"}) =>
          LET n == Len(Consumed) - Len(sentence_buffer)
              final == IF Exhausted /\ ~AllSpace(sentence_buffer)
                       THEN << Core(sentence_buffer) >> ELSE <<>>
              ns == Len(enqueued) - Len(final)
          IN  /\ n >= 0
              /\ SubSeq(Consumed, n + 1, Len(Consumed)) = sentence_buffer
              /\ ~HasBoundary(sentence_buffer)
              /\ ns >= 0
              /\ SubSeq(enqueued, ns + 1, Len(enqueued)) = final
              /\ SentenceRun(SubSeq(Consumed, 1, n), SubSeq(enqueued, 1, ns))
              /\ (ns = 0 => n = 0)
    /\ (stream_by_sentence /\ Exhausted /\ fragments = ExampleFragments) =>
          enqueued = << ExampleUnit1, ExampleUnit2 >>

\* The example reply was segmented to its end.
C6_Witness ==
    /\ stream_by_sentence
    /\ Exhausted
    /\ fragments = ExampleFragments
    /\ Len(enqueued) = 2

\* C7 as stated: full-response mode puts exactly one unit, the fragments
\* concatenated.
C7_AlwaysOneUnit ==
    (Exhausted /\ ~stream_by_sentence) => enqueued = << Concat(fragments) >>

\* C7, amended: full-response mode puts nothing before the input is
\* exhausted; then it puts one unit, the fragments concatenated without the
\* whitespace at both ends, or nothing when that leaves no text.
C7_FullResponse ==
    /\ (m_pc = "full_response" => enqueued = <<>>)
    /\ (Exhausted /\ ~stream_by_sentence) =>
          enqueued = (IF AllSpace(Concat(fragments))
                      THEN <<>> ELSE << Core(Concat(fragments)) >>)

\* The example reply went out as one unit holding both sentences.
C7_Witness ==
    /\ ~stream_by_sentence
    /\ Exhausted
    /\ fragments = ExampleFragments
    /\ Len(enqueued) = 1
    /\ HasBoundary(enqueued[1])

\* The polling loop passes its `if` and goes on to finalize an utterance.
Finalizes == MainPoll /\ m_pc' = "snapshot"

\* What the polling loop can observe: trailing silence counted in blocks of
\* 100 ms, and the buffered audio in samples.
SilenceMs == silence_counter * 100
BufferedSamples == Len(audio_buffer) * 1600

\* C8 as stated: the loop finalizes whenever it observes Recording, at
\* least 1.5 s of silence, at least 1.0 s of audio and the flag clear.
C8_AtLeastThresholds ==
    (Polling /\ recording /\ SilenceMs >= 1500 /\ BufferedSamples >= 16000
       /\ ~is_speaking) => ENABLED Finalizes

\* C8, amended: the loop finalizes when, and only when, it observes
\* Recording, more than 1.5 s of silence (16 blocks or more), more than
\* 1.0 s of audio buffered and the flag clear; exactly 1.5 s of silence, or
\* exactly 1.0 s of audio, is not enough.
C8_StrictThresholds ==
    Polling =>
      ((ENABLED Finalizes) <=>
          (recording /\ SilenceMs > 1500 /\ BufferedSamples > 16000
             /\ ~is_speaking))

\* The loop has just passed its `if` on 16 blocks of silence.
C8_Witness ==
    /\ m_pc = "snapshot"
    /\ recording
    /\ silence_counter = 16
    /\ cb_pc = "idle"
    /\ ~is_speaking

\* C9: a finalization appends exactly one utterance, the audio buffer as
\* it is then, and no utterance comes about otherwise; the reset then
\* stores the empty buffer, the counter 0 and Idle; there are never more
\* utterances than recording episodes, and once the loop is back in Idle
\* with every episode finalized it cannot finalize, whatever silence
\* follows, until speech starts a new episode.  (An interrupt may end the
\* loop at any of these steps.)
C9_OneUtterancePerEpisode ==
    /\ [](/\ Len(utterances) <= episodes
          /\ (Polling /\ episodes = Len(utterances))
                => (~recording /\ ~ENABLED Finalizes))
    /\ [][/\ (m_pc = "snapshot" /\ m_pc' \notin {"snapshot", AfterInterrupt})
                => utterances' = Append(utterances, audio_buffer)
          /\ (utterances' # utterances) => m_pc = "snapshot"
          /\ (m_pc = "reset_buffer" /\ m_pc' # "reset_buffer")
                => audio_buffer' = <<>>
          /\ (m_pc = "reset_counter" /\ m_pc' # "reset_counter")
                => silence_counter' = 0
          /\ (m_pc = "reset_recording" /\ m_pc' # "reset_recording")
                => (~recording' /\ m_pc' \in {"poll", AfterInterrupt})]_vars

\* After one utterance and the reset, more than 1.5 s of silence went by in
\* Idle.
C9_Witness ==
    /\ Len(utterances) = 1
    /\ episodes = 1
    /\ Polling
    /\ ~recording
    /\ vad_calls > 15

\* C10: as long as detect_speech has reported no speech the state is Idle,
\* the silence counter is 0, nothing is finalized and the main thread is
\* in no turn; and in Idle a block without speech changes neither the
\* state nor the counter.
C10_SilenceKeepsIdle ==
    /\ [](~heard => (/\ ~recording
                     /\ silence_counter = 0
                     /\ utterances = <<>>
                     /\ m_pc \notin (InsideTry \ {"poll"})
                     /\ ~ENABLED Finalizes))
    /\ [][(cb_pc = "silence" /\ ~recording)
            => UNCHANGED <<recording, silence_counter, utterances>>]_vars

\* From the start, more than 1.5 s of blocks without speech on a buffer of
\* more than 1.0 s.
C10_Witness ==
    /\ ~heard
    /\ vad_calls > 15
    /\ Len(audio_buffer) > 10
    /\ cb_pc = "idle"

\* The main thread is in the reset that ends a turn.
Resetting == m_pc \in {"reset_buffer", "reset_counter", "reset_recording"}

\* C11: when transcribe_audio comes back with no text (it found none, or it
\* raised), the turn is abandoned: the step goes to the reset without
\* creating a reply generator or touching the queue or the history; through
\* the reset nothing of a reply exists; and the reset stores the empty
\* buffer and Idle and returns to the polling loop with the stream open.
C11_EmptyTurnAbandoned ==
    /\ [][(m_pc = "transcribe" /\ m_pc' # "transcribe" /\ transcription' = <<>>)
            => (/\ m_pc' \in {"reset_buffer", AfterInterrupt}
                /\ UNCHANGED <<text_generator, conversation_history,
                               tts_vars, tts_obs>>)]_vars
    /\ []((Resetting /\ transcription = <<>>)
            => (/\ text_generator = <<>>
                /\ fragments = <<>>
                /\ enqueued = <<>>
                /\ unfinished_tasks = 0
                /\ stream_active))
    /\ [][(Resetting /\ transcription = <<>> /\ m_pc' # m_pc)
            => \/ m_pc' = AfterInterrupt
               \/ m_pc = "reset_buffer"
                    /\ audio_buffer' = <<>> /\ m_pc' = "reset_counter"
               \/ m_pc = "reset_counter"
                    /\ silence_counter' = 0 /\ m_pc' = "reset_recording"
               \/ m_pc = "reset_recording"
                    /\ ~recording' /\ Polling' /\ stream_active']_vars

\* The transcriber raised in the second turn, after a reply was spoken in
\* the first, and the reset has come to its last store.
C11_Witness ==
    /\ m_pc = "reset_recording"
    /\ stt_raised
    /\ transcription = <<>>
    /\ turns = 2
    /\ Len(conversation_history) = 1
    /\ audio_buffer = <<>>
    /\ silence_counter = 0

\* The main thread is inside speak_stream's segmenting loop or its join().
InSpeakStream == m_pc \in {"sentence_streaming", "full_response", "join"}

\* Nothing of any reply is queued, being rendered or awaiting task_done.
QueueIdle ==
    /\ audio_queue = <<>> /\ unfinished_tasks = 0 /\ ~is_speaking
    /\ w_pc \in {"get", "none"}

\* C12: turns are strictly sequential.  Whenever the capture loop polls,
\* finalizes an Utterance, transcribes it, obtains a reply generator or
\* resets, the queue of the previous turn is fully drained (empty, every
\* unit marked done, the worker waiting in get(), the flag clear); the step
\* that finalizes an Utterance and the step that creates the reply
\* generator are taken with the queue drained; and every unit in the queue
\* or in the worker's hands belongs to the running turn.
C12_TurnsSequential ==
    /\ []((m_pc \in InsideTry /\ ~InSpeakStream) => QueueIdle)
    /\ [][(utterances' # utterances \/ (m_pc # "speak_stream" /\ m_pc' = "speak_stream"))
            => (QueueIdle /\ QueueIdle')]_vars
    /\ [](ProcessAlive => taken \o UnitsOf(audio_queue) = UnitsOf(enqueued))

\* A second Utterance was finalized and its reply generator created, after a
\* first turn whose reply was spoken.
C12_Witness ==
    /\ enable_tts /\ turns = 2 /\ m_pc = "speak_stream" /\ text_generator # <<>>
    /\ Len(utterances) = 2
    /\ Len(conversation_history) = 1
    /\ strip(conversation_history[1][2]) # <<>>

\* The worker is inside _generate_and_play_speech, and where: cleaning the
\* text and synthesizing, or writing the audio to the output stream.
Synthesizing == w_pc = "generate"
Rendering == w_pc = "play"

\* C13 as the code has it: SpeakingFlag is set for the whole time the worker
\* spends on a unit, from the set() that follows the get() to the clear()
\* that follows _generate_and_play_speech: during text cleaning and
\* synthesis, while the audio is written to the output device, and also for
\* a unit that produces no audio.  It is never clear while audio is being
\* rendered, it is set by no other step than the worker's set(), and the
\* worker's next step after rendering completes or fails clears it.
C13_FlagWhileUnitProcessed ==
    /\ [](is_speaking <=> (Synthesizing \/ Rendering \/ w_pc = "clear"))
    /\ [](Rendering => is_speaking)
    /\ [][(is_speaking' /\ ~is_speaking) => (w_pc = "set" /\ Synthesizing')]_vars
    /\ [][((Synthesizing \/ Rendering) /\ ~(Synthesizing' \/ Rendering'))
            => (w_pc' = "clear" /\ is_speaking')]_vars
    /\ [][(w_pc = "clear" /\ w_pc' # "clear") => ~is_speaking']_vars

\* The flag is set although the unit in hand produced no audio: its clean
\* text was empty or synthesis gave nothing.
C13_Witness ==
    /\ is_speaking /\ w_pc = "clear" /\ rendered # <<>>
    /\ rendered[Len(rendered)] = <<w_text, "nothing">>

\* C13 as stated: the flag is set only while audio is being written to the
\* output device (and until the clear that follows), never during cleaning
\* or synthesis.
C13_SetOnlyWhileRendering ==
    /\ is_speaking => (Rendering \/ w_pc = "clear")
    /\ Rendering => is_speaking

\* The texts of the units enqueued before the first shutdown signal.
RECURSIVE BeforeSentinel(_)
BeforeSentinel(q) ==
    IF q = <<>> \/ Head(q) = None THEN <<>>
    ELSE <<Head(q)>> \o BeforeSentinel(Tail(q))

\* The texts of the units the worker has finished, in order.
RenderedTexts == [i \in 1..Len(rendered) |-> rendered[i][1]]

\* C14: cleanup() with a live worker puts exactly one sentinel, behind
\* whatever is pending, and then waits in join(timeout=2) (without a live
\* worker it puts nothing and returns at once); once entered it always
\* returns, whether the worker has exited or not, needing only that the
\* main thread runs; the worker exits when it dequeues the sentinel and by
\* no other step, and by then it has processed every unit enqueued before
\* the sentinel.
C14_Shutdown ==
    /\ [][(m_pc = "run_returned" /\ m_pc' # m_pc)
            => IF ThreadAlive
               THEN /\ m_pc' = "del_join"
                    /\ audio_queue' = Append(audio_queue, None)
                    /\ unfinished_tasks' = unfinished_tasks + 1
               ELSE /\ m_pc' = "finalized"
                    /\ UNCHANGED <<audio_queue, unfinished_tasks>>]_vars
    /\ (m_pc = "run_returned") ~> (m_pc = "finalized")
    /\ (m_pc = "del_join") ~> (m_pc = "finalized")
    /\ [][(w_pc = "get" /\ w_pc' # "get")
            => (w_pc' = "exit") = (QueueFront(audio_queue) = None)]_vars
    /\ [][(w_pc' = "exit" /\ w_pc # "exit")
            => (/\ w_pc = "get" /\ audio_queue # <<>>
                /\ QueueFront(audio_queue) = None
                /\ audio_queue' = QueueRest(audio_queue))]_vars
    /\ [](w_pc = "exit" => /\ RenderedTexts = BeforeSentinel(enqueued)
                           /\ taken = BeforeSentinel(enqueued)
                           /\ ~is_speaking)

\* cleanup() has returned and the worker has exited on the sentinel, which
\* was put behind two units that it spoke first.
C14_Witness ==
    /\ m_pc = "finalized" /\ w_pc = "exit"
    /\ Len(rendered) = 2 /\ Len(enqueued) = 3 /\ enqueued[3] = None
    /\ audio_queue = <<>>

\* run has returned (and what follows it: __del__, the end of the process).
RunReturned == m_pc \in {"run_returned", "del_join", "finalized"}

\* The shutdown signal has been put on the queue.
ShutdownSignalled == \E i \in 1..Len(enqueued) : enqueued[i] = None

\* C15: the capture loop is left only by an interrupt, and once run has
\* returned the interrupt has been handled in full: the input stream is
\* stopped and, where a worker thread was started, cleanup has put the
\* shutdown signal on the SynthesisQueue.
C15_ShutdownBeforeRunReturns ==
    RunReturned => (/\ ~stream_active
                    /\ w_pc # "none" => ShutdownSignalled)

\* Ctrl+C came while the loop was polling: run has returned, the stream is
\* stopped, and the worker still waits in get() on a queue that never got
\* the shutdown signal.
C15_Witness ==
    /\ m_pc = "run_returned" /\ ~stream_active /\ delivered > 0
    /\ w_pc = "get" /\ audio_queue = <<>> /\ ~ShutdownSignalled

\* The worker is synthesizing or playing the unit it took.
InFlight == Synthesizing \/ Rendering

\* C16 as the code has it: shutdown does not cancel a unit in flight, and
\* does not wait for it beyond the join's timeout.  No step of the main
\* thread, cleanup() included, touches the worker or the unit it holds; a
\* unit in flight only moves on to its playing or to the clear that follows
\* its completion or failure; and the wait in cleanup() can end whatever the
\* worker is doing, so cleanup() may return with the unit still in flight.
C16_NoCancelBoundedWait ==
    /\ [][(m_pc' # m_pc)
            => UNCHANGED <<w_pc, w_text, clean_text, is_speaking, taken, rendered>>]_vars
    /\ [][(InFlight /\ w_pc' # w_pc)
            => (w_pc' \in {"play", "clear"} /\ w_text' = w_text)]_vars
    /\ [](m_pc = "del_join" => ENABLED DelCleanupJoin)

\* cleanup() has returned while the worker is still playing a unit, the
\* shutdown signal waiting in the queue behind it.
C16_Witness ==
    /\ m_pc = "finalized" /\ Rendering /\ is_speaking
    /\ audio_queue # <<>> /\ audio_queue[Len(audio_queue)] = None
    /\ Len(rendered) < Len(taken)

\* C16 as stated: a unit in flight when cleanup() is about to be called has
\* run to completion or failure by the time cleanup() has returned.
C16_WaitsForInFlight ==
    \A k \in 1..3 :
        []((m_pc = "run_returned" /\ InFlight /\ Len(taken) = k)
              => [](m_pc = "finalized" => Len(rendered) >= k))

\* C17: a detector that raises is taken as 'no speech' and a transcriber
\* that raises as empty text, and the capture loop goes on.  After a raising
\* detect_speech the callback is in its no-speech branch: while recording
\* it steps the silence counter by one, while Idle it returns with buffer,
\* counter and state as they were, and recording is not switched either
\* way.  After a raising transcribe_audio the transcription is empty and
\* the turn is in its reset, from which the loop polls again.  Through both
\* the input stream stays open and the main thread stays inside the loop.
C17_FailuresAreSilence ==
    /\ [](vad_raised => (/\ cb_pc \in {"silence", "silence_store"}
                         /\ stream_active /\ m_pc \in InsideTry))
    /\ [][(vad_raised /\ cb_pc = "silence" /\ cb_pc' # cb_pc)
            => IF recording
               THEN /\ cb_pc' = "silence_store"
                    /\ cb_local' = silence_counter + 1
                    /\ UNCHANGED <<recording, silence_counter, audio_buffer>>
               ELSE /\ cb_pc' = "idle"
                    /\ UNCHANGED <<recording, silence_counter, audio_buffer>>]_vars
    /\ [][(vad_raised /\ cb_pc = "silence_store" /\ cb_pc' # cb_pc)
            => (/\ cb_pc' = "idle" /\ silence_counter' = cb_local
                /\ UNCHANGED <<recording, audio_buffer>>)]_vars
    /\ [](stt_raised => (/\ transcription = <<>> /\ Resetting
                         /\ stream_active /\ text_generator = <<>>))
    /\ [][(stt_raised /\ ~stt_raised')
            => (Polling' /\ stream_active') \/ m_pc' = AfterInterrupt]_vars

\* The transcriber has raised and the turn is in its reset; meanwhile the
\* detector has raised on the next block, which the callback is counting
\* as silence.
C17_Witness ==
    /\ stt_raised /\ vad_raised /\ cb_pc = "silence_store" /\ recording
    /\ cb_local = silence_counter + 1

\* The consumer has run the reply generator to its end.
GeneratorDone == m_pc \in {"join", "reset_buffer"}

\* The call has yielded the fallback: the model failed during it.
ModelFailed == \E i \in 1..Len(fragments) : fragments[i] = error_response

\* C18 as the code has it: generate_response never fails outward.  When the
\* model stream raises, the generator has first yielded every chunk that
\* came before the failure and then yields the literal fallback, once, as
\* its last fragment; in that step exactly one pair (prompt, fallback) is
\* appended to the history, and nothing after it.  A call that ends
\* normally appends the pair (prompt, whole reply) instead.  Either way the
\* history has grown by one pair when the generator is exhausted.
C18_FallbackFragment ==
    /\ [](generator_end = "raise" /\ text_generator = <<>>
            => GeneratorYields /\ GeneratorChunk = error_response)
    /\ [][(generator_end = "raise" /\ generator_end' # "raise" /\ m_pc' # AfterInterrupt)
            => (/\ text_generator' = <<>> /\ generator_end' = "stop"
                /\ ~ModelFailed
                /\ fragments' = Append(fragments, error_response)
                /\ conversation_history' =
                      Append(conversation_history, <<Prompt, error_response>>))]_vars
    /\ [][(ModelFailed /\ m_pc' # AfterInterrupt)
            => UNCHANGED <<fragments, conversation_history>>]_vars
    /\ [](GeneratorDone =>
            /\ generator_end = "stop" /\ text_generator = <<>>
            /\ Len(conversation_history) = 1
            /\ conversation_history[1] =
                  <<Prompt, IF ModelFailed THEN error_response
                                           ELSE Concat(fragments)>>
            /\ ModelFailed => fragments[Len(fragments)] = error_response)

\* The model failed after two chunks: the call has yielded both and then the
\* fallback, and the history holds the one pair (prompt, fallback).
C18_Witness ==
    /\ GeneratorDone /\ enable_tts
    /\ fragments = SubSeq(ReplyThree, 1, 2) \o <<error_response>>
    /\ conversation_history = << <<Prompt, error_response>> >>

\* C18 as stated: whenever the model failed, the fallback is all the call
\* has yielded.
C18_OnlyFallbackYielded ==
    (GeneratorDone /\ ModelFailed) => fragments = <<error_response>>

\* C19: with TTS disabled speak_stream consumes the whole fragment sequence
\* in the call itself, its full_response being the concatenation of the
\* fragments in order (the text it prints), and returns at once: it never
\* enters a streaming mode nor waits in join(); no unit is ever enqueued or
\* taken and the flag is never set, also when a worker thread is running.
C19_DisabledTtsBypassesQueue ==
    /\ [][(~enable_tts /\ m_pc = "speak_stream" /\ m_pc' \notin {m_pc, AfterInterrupt})
            => (/\ m_pc' = "reset_buffer"
                /\ text_generator' = <<>> /\ generator_end' = "stop"
                /\ full_response' = Concat(fragments')
                /\ SubSeq(fragments', 1, Len(fragments)) = fragments
                /\ UNCHANGED <<tts_vars, tts_obs>>)]_vars
    /\ [](~enable_tts => (/\ UnitsOf(enqueued) = <<>> /\ UnitsOf(audio_queue) = <<>>
                          /\ taken = <<>> /\ rendered = <<>> /\ ~is_speaking
                          /\ w_pc \in {"none", "get", "exit"}
                          /\ ~InSpeakStream))

\* speak_stream has returned with TTS disabled, after a reply of three
\* fragments, while the worker thread started by the constructor waits on
\* its empty queue.
C19_Witness ==
    /\ ~enable_tts /\ m_pc = "reset_buffer" /\ w_pc = "get"
    /\ fragments = ReplyThree /\ full_response = Concat(ReplyThree)
    /\ text_generator = <<>> /\ enqueued = <<>> /\ unfinished_tasks = 0
    /\ conversation_history = << <<Prompt, Concat(ReplyThree)>> >>

\* The worker has cleaned the unit it holds.
Cleaned == taken # <<>> /\ w_pc \notin {"set", "generate"}

\* The text before any span is deleted: markup removed, dashes turned into
\* spaces, whitespace runs collapsed, the ends trimmed.
Collapsed(text) == strip(CollapseSpaces(DashToSpace(RemoveMarkup(text))))

\* No opener of t comes before a closer.
NoSpanLeft(t, opener, closer) ==
    \A i \in 1..Len(t) : \A j \in i..Len(t) : ~(t[i] = opener /\ t[j] = closer)

\* t has no whitespace at its ends and no two spaces in a row.
SingleSpaced(t) ==
    /\ strip(t) = t
    /\ \A i \in 1..(Len(t) - 1) : ~(t[i] = " " /\ t[i + 1] = " ")

\* C20: the clean text of a unit has no '*', no '_' and no dash, and no
\* whitespace other than the space; it is the collapsed and trimmed text
\* with every [..] span and then every (..) span deleted, no complete span
\* being left, and nothing is collapsed or trimmed after that: a text
\* without brackets and parentheses comes out single-spaced and trimmed,
\* while the space before or after a deleted span stays, as in the three
\* examples.
C20_CleaningOrder ==
    Cleaned =>
        /\ \A i \in 1..Len(clean_text) :
              clean_text[i] \notin Markup \cup Dashes \cup (Whitespace \ {" "})
        /\ clean_text = RemoveSpans(RemoveSpans(Collapsed(w_text), "[", "]"), "(", ")")
        /\ NoSpanLeft(clean_text, "[", "]")
        /\ NoSpanLeft(clean_text, "(", ")")
        /\ (\A i \in 1..Len(w_text) : w_text[i] \notin {"[", "]", "(", ")"})
              => (clean_text = Collapsed(w_text) /\ SingleSpaced(clean_text))
        /\ w_text = MarkdownExample => clean_text = MarkdownCleaned
        /\ w_text = BracketExample => clean_text = BracketCleaned
        /\ w_text = ParenExample => clean_text = ParenCleaned

\* The worker has spoken the example with the parentheses: its clean text
\* has the two spaces that stood around the deleted span.
C20_Witness ==
    /\ rendered = << <<ParenExample, "played">> >>
    /\ clean_text = ParenCleaned /\ ~SingleSpaced(clean_text)

\* A call of audio_callback returns.
CallbackReturns == cb_pc # "idle" /\ cb_pc' = "idle"

\* The cases of C21, each at the return of the call it is about: speech was
\* detected; no speech while recording; no speech while Idle; less than
\* 0.5 s buffered.
SpeechStartsRecording ==
    (cb_pc = "speech_zero" /\ CallbackReturns)
        => (recording' /\ silence_counter' = 0)
SilenceCountsOne ==
    (cb_pc = "silence_store" /\ CallbackReturns)
        => (silence_counter' = silence_counter + 1 /\ recording' = recording)
SilenceIdleStaysZero ==
    (cb_pc = "silence" /\ ~recording /\ CallbackReturns)
        => (silence_counter' = 0 /\ ~recording')
ShortBufferSkipsVad ==
    (cb_pc = "vad" /\ ~VadRuns(audio_buffer) /\ CallbackReturns)
        => UNCHANGED <<recording, silence_counter, vad_calls, heard>>

\* C21: a call of the callback that is not gated leaves state and counter
\* as the voice-activity test says.  With at least 0.5 s buffered: after
\* speech the state is Recording and the counter 0; after no speech the
\* counter is one more than before when recording, and still 0 when Idle.
\* With less than 0.5 s buffered the test is not run and state and counter
\* are as they were.
C21_VadStepContract ==
    [][/\ SpeechStartsRecording
       /\ SilenceCountsOne
       /\ SilenceIdleStaysZero
       /\ ShortBufferSkipsVad]_vars

\* A call without speech is about to return in Idle, and the counter is
\* not 0: an earlier call stored its count after the main thread's reset.
C21_Witness ==
    /\ cb_pc = "silence" /\ ~recording /\ silence_counter > 0
    /\ m_pc = "poll" /\ turns = 1

\* The samples of buf are in the order in which they were accepted.
InOrder(buf) == \A i \in 1..(Len(buf) - 1) : buf[i] < buf[i + 1]

\* C22: the buffer never holds more than 5 s of samples where it can be
\* seen: after a call of the callback has returned, when the polling loop
\* tests it or takes its snapshot, and in every Utterance emitted; a trim
\* keeps exactly the latest 5 s of the buffer, and the samples stay in the
\* order in which they were accepted.
C22_WindowBound ==
    /\ (cb_pc = "idle" \/ m_pc \in {"poll", "snapshot"})
          => BufLen(audio_buffer) <= max_buffer_size
    /\ \A i \in 1..Len(utterances) : BufLen(utterances[i]) <= max_buffer_size
    /\ cb_pc = "trim_store" => cb_local = LastSamples(audio_buffer, max_buffer_size)
    /\ InOrder(audio_buffer)

\* An Utterance of more than 5 s has been emitted: the snapshot was taken
\* between the callback's extend and its trim.
C22_Witness ==
    /\ utterances # <<>>
    /\ BufLen(utterances[Len(utterances)]) = max_buffer_size + BlockSize
    /\ InOrder(utterances[Len(utterances)])

\* The blocks an Utterance is made of.
BlocksOf(u) == {u[i] : i \in 1..Len(u)}

\* C23: once the state is Recording no accepted sample is dropped before
\* the finalization.  A trim that drops samples happens in Idle only; and
\* the Utterance of an episode that began with block EpisodeStart holds
\* every block accepted after it, up to its last.
C23_NoDropWhileRecording ==
    /\ (cb_pc = "trim_store" /\ Len(cb_local) < Len(audio_buffer)) => ~recording
    /\ \A i \in 1..Len(utterances) :
          \A b \in (EpisodeStart + 1)..delivered :
              b <= utterances[i][Len(utterances[i])] => b \in BlocksOf(utterances[i])

\* The blocks of buf are consecutive blocks of the stream.
Consecutive(buf) == \A i \in 1..(Len(buf) - 1) : buf[i + 1] = buf[i] + 1

\* C23 (amended): the cap drops samples in every state, Recording
\* included.  Whenever an accepted block takes the buffer over 5 s the slice
\* keeps the latest 5 s, ending with that block; what is snapshotted ends
\* with the latest accepted block, and an Utterance is a run of consecutive
\* blocks of at most 5 s and one block.
C23_CapInEveryState ==
    /\ cb_pc = "trim_store" =>
          /\ BufLen(cb_local) = max_buffer_size
          /\ cb_local[Len(cb_local)] = cb_block
          /\ Consecutive(cb_local)
    /\ m_pc = "snapshot" =>
          /\ audio_buffer # <<>>
          /\ audio_buffer[Len(audio_buffer)] = cb_block
    /\ \A k \in 1..Len(utterances) :
          /\ BufLen(utterances[k]) <= max_buffer_size + BlockSize
          /\ Consecutive(utterances[k])

\* The user spoke for 5 s and was silent for 1.6 s: the Utterance emitted
\* is the last 5 s and lacks the first blocks of the speech.
C23_Witness ==
    /\ Len(utterances) = 1 /\ episodes = 1 /\ gated = 0
    /\ BufLen(utterances[1]) = max_buffer_size
    /\ (EpisodeStart + 1) \notin BlocksOf(utterances[1])
    /\ delivered \in BlocksOf(utterances[1])

\* A step that pulls the next fragment from the reply generator.
Pulls ==
    /\ text_generator # <<>>
    /\ text_generator' = Tail(text_generator)
    /\ m_pc' = m_pc

\* C24: in sentence-streaming mode a sentence is put in the very step that
\* consumes the fragment completing it, before the next fragment is
\* pulled: if the buffer with the new fragment holds a sentence end, the
\* step puts at least one unit ending in a terminator, the queue is not
\* empty after it and the buffer left holds no sentence end; a fragment
\* that completes nothing puts nothing.  No step of the worker waits for
\* the generator to be exhausted.
C24_Pipelined ==
    [][(stream_by_sentence /\ m_pc = "sentence_streaming" /\ Pulls) =>
          /\ ~HasBoundary(sentence_buffer')
          /\ IF HasBoundary(sentence_buffer \o GeneratorChunk)
             THEN /\ Len(enqueued') > Len(enqueued)
                  /\ audio_queue' # <<>>
                  /\ \A i \in (Len(enqueued) + 1)..Len(enqueued') :
                        /\ enqueued'[i] # <<>>
                        /\ enqueued'[i][Len(enqueued'[i])] \in Terminators
                  /\ audio_queue' =
                        audio_queue \o SubSeq(enqueued', Len(enqueued) + 1,
                                              Len(enqueued'))
             ELSE /\ enqueued' = enqueued
                  /\ audio_queue' = audio_queue]_vars

\* The first sentence is being played while the generator still has
\* fragments to deliver.
C24_Witness ==
    /\ stream_by_sentence
    /\ m_pc = "sentence_streaming"
    /\ text_generator # <<>>
    /\ w_pc = "play"
    /\ is_speaking
    /\ Len(taken) = 1

\* Every block some emitted Utterance holds.
Emitted == UNION {BlocksOf(utterances[i]) : i \in 1..Len(utterances)}

\* The main thread's `audio_buffer = []` after a turn.
ResetsBuffer == m_pc = "reset_buffer" /\ m_pc' = "reset_counter"

\* C25: no accepted audio is dropped by the reset after a turn: what the
\* reset removes from the buffer is held by an emitted Utterance, whatever
\* the callback has appended while the main thread was busy with the turn.
C25_NoAcceptedAudioDropped ==
    [][ResetsBuffer => BlocksOf(audio_buffer) \subseteq Emitted]_vars

\* A block was accepted while the main thread was busy with the turn; the
\* reset has emptied the buffer and the block is in no Utterance.
C25_Witness ==
    /\ m_pc = "reset_counter"
    /\ cb_pc = "idle"
    /\ gated = 0
    /\ audio_buffer = <<>>
    /\ utterances # <<>>
    /\ delivered \notin Emitted

\* The reset after a turn has emptied the buffer and the next snapshot is
\* not yet taken.
ResetHasRun == m_pc \in {"reset_counter", "reset_recording", "poll", "snapshot"}

\* C26: no audio is duplicated across Utterances.  Once the reset has run,
\* the buffer holds no block of an emitted Utterance, and no block is held
\* by two Utterances.
C26_NoDuplicateAudio ==
    /\ ResetHasRun => BlocksOf(audio_buffer) \cap Emitted = {}
    /\ \A i, j \in 1..Len(utterances) :
          i # j => BlocksOf(utterances[i]) \cap BlocksOf(utterances[j]) = {}

\* The callback had sliced the full buffer when the main thread finalized
\* and reset it, and stored the slice afterwards: the second Utterance
\* repeats blocks of the first.
C26_Witness ==
    /\ Len(utterances) = 2
    /\ BlocksOf(utterances[1]) \cap BlocksOf(utterances[2]) # {}
    /\ BufLen(utterances[2]) >= max_buffer_size

\* C27: the not-speaking conjunct of the finalization condition is
\* redundant.  Whenever the polling loop evaluates the condition the flag
\* is clear, so the condition comes out as it would without the conjunct;
\* and an Utterance is finalized with the flag clear only.
C27_NotSpeakingRedundant ==
    /\ Polling =>
          /\ ~is_speaking_callback
          /\ Finalizable(recording, silence_counter, audio_buffer,
                         is_speaking_callback)
               = Finalizable(recording, silence_counter, audio_buffer, FALSE)
    /\ m_pc = "snapshot" => ~is_speaking

\* After a turn whose reply was played, with blocks gated meanwhile, the
\* loop has found the condition true again.
C27_Witness ==
    /\ enable_tts
    /\ m_pc = "snapshot"
    /\ turns = 1
    /\ gated > 0
    /\ Finalizable(recording, silence_counter, audio_buffer, is_speaking_callback)

\* A speak_stream or speak_text call is running.
Speaking == m_pc \in {"speak_stream", "speak_text", "sentence_streaming",
                      "full_response", "join"}

\* C28: await_drain always terminates.  Every speak_stream and speak_text
\* call returns in the end, also one made after cleanup().
C28_AwaitDrainTerminates == Speaking ~> Drained

\* cleanup() was called before; the call has put its units behind the
\* shutdown signal, the worker has left its loop on the signal, and the
\* caller waits in join() for tasks nobody will mark done.
C28_Witness ==
    /\ m_pc = "join"
    /\ w_pc = "exit"
    /\ ShutdownSignalled
    /\ UnitsOf(audio_queue) # <<>>
    /\ unfinished_tasks > Len(audio_queue)

\* No call of the LLMProcessor is running.
LlmIdle == m_pc = "llm_idle"

\* C29: the stored history never holds more than max_history_pairs pairs.
\* After every completed call, gone well or fallen back, it is that short
\* and holds the pairs of the latest calls in their order.
C29_HistoryBounded ==
    LlmIdle =>
       /\ Len(conversation_history) <= max_history_pairs
       /\ \A i \in 1..Len(conversation_history) :
             conversation_history[i][1] =
                 PromptOf(turns - Len(conversation_history) + i)

\* With ten pairs stored the model failed: the fallback pair is the
\* eleventh.
C29_Witness ==
    /\ LlmIdle
    /\ Len(conversation_history) = max_history_pairs + 1
    /\ conversation_history[max_history_pairs + 1] =
           <<PromptOf(turns), error_response>>

\* The units sentence-streaming mode puts for the text t handed over as
\* one fragment.
WholeUnits(t) == StreamingPuts(<<>>, t) \o FlushPuts(StreamingRest(<<>>, t))

\* C30: sentence segmentation is independent of chunking.  However the
\* reply is cut into fragments, empty ones included, the units put are
\* those put for the whole reply in one fragment, in the same order; and
\* no unit is empty or whitespace only.
C30_ChunkingIndependent ==
    /\ (stream_by_sentence /\ Exhausted) =>
          enqueued = WholeUnits(Concat(fragments))
    /\ stream_by_sentence =>
          \A i \in 1..Len(enqueued) : ~AllSpace(enqueued[i])

\* A reply cut between a terminator and the whitespace after it was
\* segmented to the end, into the two units of the uncut reply.
C30_Witness ==
    /\ stream_by_sentence
    /\ Exhausted
    /\ Len(fragments) = 2
    /\ fragments[1] # <<>>
    /\ fragments[2] # <<>>
    /\ fragments[1][Len(fragments[1])] \in Terminators
    /\ fragments[2][1] \in Whitespace
    /\ Len(enqueued) = 2
    /\ enqueued = WholeUnits(Concat(fragments))

===========================================================================
